---- MODULE Spec2Model ----
(***************************************************************************)
(* GoSheet: the sparse cell store of a sheet, its viewport and eviction    *)
(* pass, the structural editor (row/column insert and delete), the         *)
(* dependency graph and recalculation engine, the persistence round trip   *)
(* and the workbook's sheet collection.                                    *)
(***************************************************************************)
EXTENDS Integers, Sequences, FiniteSets, TLC

(***************************************************************************)
(* Bounds of the model.                                                    *)
(***************************************************************************)
\* visible rows / columns of the viewport (the terminal's size)
ViewRows == 2
ViewCols == 2
\* how far the viewport is panned away from the origin
MaxPan == 1
\* cells of the file the sheet is loaded from
MaxFileCells == 2
\* structural edits (confirmed or declined) in one run
MaxEdits == 2
\* raw-text writes in one run
MaxWrites == 2
\* sheets in a workbook
MaxSheets == 3

(***************************************************************************)
(* Program constants.                                                      *)
(***************************************************************************)
\* RenderVisible's retention margin: CleanupDistantCells(data, vp, 100)
KeepDistance == 100

White == <<255, 255, 255>>
Black == <<0, 0, 0>>
Red == <<255, 0, 0>>

Max(a, b) == IF a >= b THEN a ELSE b

(***************************************************************************)
(* Text.  A text is a sequence of tokens: a character, a number literal, a *)
(* tview colour tag, or a cell reference (column letters and row digits).  *)
(***************************************************************************)
Ch(c) == [t |-> "ch", c |-> c, col |-> <<>>, row |-> 0]
Num(n) == [t |-> "num", c |-> "", col |-> <<>>, row |-> n]
Tag(c) == [t |-> "tag", c |-> c, col |-> <<>>, row |-> 0]

\* utils.ColumnName: 1 -> A, 26 -> Z, 27 -> AA (letters as 1..26)
RECURSIVE ColumnName(_)
ColumnName(n) ==
    IF n <= 0 THEN <<>>
    ELSE ColumnName((n - 1) \div 26) \o <<((n - 1) % 26) + 1>>

\* the inverse of ColumnName: the column number of a letter sequence
RECURSIVE ColumnNumber(_)
ColumnNumber(letters) ==
    IF letters = <<>> THEN 0
    ELSE 26 * ColumnNumber(SubSeq(letters, 1, Len(letters) - 1))
         + letters[Len(letters)]

\* an address made of the row number alone
AddrOfRow(row, col) == <<<<>>, row>>

\* the address of a cell, "B12": fmt.Sprintf("%s%d", ColumnName(col), row)
Addr(row, col) == <<ColumnName(col), row>>
\* the key [2]int{row, col} an address denotes
AddrKey(a) == <<a[2], ColumnNumber(a[1])>>
\* a reference token inside a formula text
Ref(row, col) == [t |-> "ref", c |-> "", col |-> ColumnName(col), row |-> row]
RefAddr(tok) == <<tok.col, tok.row>>

(***************************************************************************)
(* Cells.                                                                  *)
(***************************************************************************)
\* cell.NewCell(row, col, text): a cell with default formatting
NewCell(row, col, text) ==
    [Row |-> row, Column |-> col,
     RawValue |-> text, Display |-> text, Type |-> "string",
     Notes |-> <<>>, Valrule |-> <<>>, Valrulemsg |-> <<>>,
     Flags |-> {}, Color |-> White, BgColor |-> Black, Align |-> 0,
     DependsOn |-> {}, Dependents |-> {}]

HasFlag(c, f) == f \in c.Flags
IsFormula(c) == HasFlag(c, "Formula")

\* isEmptyCell without the validation-rule test
isEmptyCellNoValrule(c) ==
    /\ c.RawValue = <<>>
    /\ ~IsFormula(c)
    /\ c.Notes = <<>>
    /\ ~(HasFlag(c, "Bold") \/ HasFlag(c, "Italic") \/ HasFlag(c, "Underline"))
    /\ c.Color = White
    /\ c.BgColor = Black

\* table.isEmptyCell
isEmptyCell(c) ==
    /\ ~(c.RawValue # <<>>)
    /\ ~IsFormula(c)
    /\ ~(c.Notes # <<>>)
    /\ ~(HasFlag(c, "Bold") \/ HasFlag(c, "Italic") \/ HasFlag(c, "Underline"))
    /\ ~(c.Valrule # <<>>)
    /\ ~(c.Color[1] # 255 \/ c.Color[2] # 255 \/ c.Color[3] # 255)
    /\ ~(c.BgColor[1] # 0 \/ c.BgColor[2] # 0 \/ c.BgColor[3] # 0)

(***************************************************************************)
(* Viewport and eviction.                                                  *)
(***************************************************************************)
\* Viewport.ToAbsolute: visible (vr, vc) -> absolute (top+vr-1, left+vc-1)
ToAbsolute(v, vr, vc) == <<v.TopRow + vr - 1, v.LeftCol + vc - 1>>

\* the keys CleanupDistantCells looks at for eviction: outside the margin
Distant(v, key, keepDistance) ==
    LET minRow == Max(1, v.TopRow - keepDistance)
        maxRow == v.TopRow + v.ViewRows + keepDistance
        minCol == Max(1, v.LeftCol - keepDistance)
        maxCol == v.LeftCol + v.ViewCols + keepDistance
    IN  key[1] < minRow \/ key[1] > maxRow \/ key[2] < minCol \/ key[2] > maxCol

\* table.CleanupDistantCells: the store after the eviction pass
CleanupDistantCells(d, v, keepDistance) ==
    LET keep == {k \in DOMAIN d : ~(Distant(v, k, keepDistance) /\ isEmptyCell(d[k]))}
    IN  [k \in keep |-> d[k]]

\* table.RenderVisible: draws the window, then evicts with margin 100
RenderVisible(v, d) == CleanupDistantCells(d, v, KeepDistance)

(***************************************************************************)
(* State.                                                                  *)
(***************************************************************************)
VARIABLES
    sheets,       \* globalWorkbook.Sheets: sequence of [Name, Data, Viewport]
    activeSheet,  \* globalWorkbook.ActiveSheet (0-based index)
    hasChanges,   \* globalWorkbook.HasChanges
    currentFile,  \* globalWorkbook.CurrentFile
    modal,        \* the dialog on screen, or NoModal
    lastOp,       \* the handler that ran last, what it was asked and (out)
                  \* what it returned
    pre,          \* the active store when that handler started
    rendered,     \* the store that handler handed to RenderVisible
    undone,       \* set by a confirmed deletion that directly follows a
                  \* confirmed insertion: that insertion and the store before it
    edits,        \* structural edits requested so far
    writes,       \* raw-text writes so far
    disk,         \* the file the last save wrote, or NoFile
    saved         \* the sheets that save was given

vars == <<sheets, activeSheet, hasChanges, currentFile, modal, lastOp, pre,
          rendered, undone, edits, writes, disk, saved>>

NoFile == [Version |-> "", ActiveSheet |-> 0, Sheets |-> <<>>]

NoModal == [kind |-> "none", idx |-> 0]
NoOp == [op |-> "none", idx |-> 0, button |-> "", key |-> <<0, 0>>,
         text |-> <<>>, order |-> <<>>, out |-> <<>>]
NotUndone == [op |-> NoOp, store |-> <<>>]

\* Workbook.GetActiveSheet, GetActiveSheetData, GetActiveViewport
GetActiveSheet == sheets[activeSheet + 1]
GetActiveSheetData == GetActiveSheet.Data
GetActiveViewport == GetActiveSheet.Viewport

\* the store a cell slice makes: sheet.Data[{c.Row, c.Column}] = c
StoreOf(cells) ==
    [k \in {<<c.Row, c.Column>> : c \in cells} |->
        CHOOSE c \in cells : <<c.Row, c.Column>> = k]

\* NewWorkbook: one sheet with an empty store and the viewport at the origin
OriginViewport ==
    [TopRow |-> 1, LeftCol |-> 1, ViewRows |-> ViewRows, ViewCols |-> ViewCols]
NewSheet(name) == [Name |-> name, Data |-> <<>>, Viewport |-> OriginViewport]
NewWorkbook == <<NewSheet("Sheet1")>>

\* SetCurrentFilename(table, filename) with a workbook installed: the
\* workbook's CurrentFile afterwards
SetCurrentFilename(filename) == filename
\* CreateTable(title): the workbook's CurrentFile after it; the title is
\* passed to SetCurrentFilename
CreateTable(title) == SetCurrentFilename(title)
\* table.NewTable: CurrentFile is set to "" and CreateTable("Untitled")
\* follows; the workbook's CurrentFile afterwards
NewTableCurrentFile == CreateTable("Untitled")

(***************************************************************************)
(* The files a sheet is opened from.                                       *)
(***************************************************************************)
\* the last column / row the eviction pass keeps with the viewport at the origin
EdgeCol == 1 + ViewCols + KeepDistance
EdgeRow == 1 + ViewRows + KeepDistance

Five == <<Num(5)>>
At(c, row, col) == [c EXCEPT !.Row = row, !.Column = col]
\* cells a file may hold near the origin
NearCells == {NewCell(1, 1, Five), NewCell(2, 2, Five)}
\* the contents a cell may have that is not just text
EmptyContent == NewCell(0, 0, <<>>)
StrikeContent == [EmptyContent EXCEPT !.Flags = {"Strikethrough"}]
Contents ==
    { EmptyContent,
      NewCell(0, 0, Five),
      [EmptyContent EXCEPT !.Notes = <<Ch("n")>>],
      [EmptyContent EXCEPT !.Valrule = <<Ch("THIS>0")>>],
      [NewCell(0, 0, <<Ch("=1+1")>>) EXCEPT !.Flags = {"Formula"}],
      [EmptyContent EXCEPT !.Flags = {"Bold"}],
      StrikeContent }
\* cells a file may hold at the edge of the retention margin and beyond it
FarCells ==
    {At(c, EdgeRow + 1, 1) : c \in Contents}
    \cup {At(c, 1, EdgeCol) : c \in {EmptyContent, StrikeContent}}
    \cup {At(EmptyContent, EdgeRow, 1)}

\* the subsets of S with at most n elements
RECURSIVE SubsetsUpTo(_, _)
SubsetsUpTo(S, n) ==
    IF n = 0 THEN {{}}
    ELSE LET smaller == SubsetsUpTo(S, n - 1)
         IN  smaller \cup {p \cup {x} : p \in smaller, x \in S}

\* the cell slices fileop.OpenTable may return: at most one cell per address
Files ==
    {f \in SubsetsUpTo(NearCells \cup FarCells, MaxFileCells) :
        \A a, b \in f : (a.Row = b.Row /\ a.Column = b.Column) => a = b}

\* table.OpenTable (table.NewTable when the file holds no cell): the state
\* right after the cell slice f has been loaded
OpenedFrom(f) ==
    /\ sheets = <<[NewSheet("Sheet1") EXCEPT
                     !.Data = RenderVisible(OriginViewport, StoreOf(f))]>>
    /\ activeSheet = 0
    /\ hasChanges = FALSE
    /\ currentFile = IF f = {} THEN NewTableCurrentFile
                     ELSE CreateTable("book.gsheet")
    /\ modal = NoModal
    /\ lastOp = [NoOp EXCEPT !.op = "open"]
    /\ pre = <<>>
    /\ rendered = StoreOf(f)
    /\ undone = NotUndone
    /\ edits = 0
    /\ writes = 0
    /\ disk = NoFile
    /\ saved = <<>>

Init == \E f \in Files : OpenedFrom(f)

SetActiveData(d) == [sheets EXCEPT ![activeSheet + 1].Data = d]

(***************************************************************************)
(* Structural editor.                                                      *)
(***************************************************************************)
\* where insertCol / insertRow puts the cell stored at key
InsertKey(axis, idx, key) ==
    IF key[axis] < idx THEN key
    ELSE IF axis = 1 THEN <<key[1] + 1, key[2]>> ELSE <<key[1], key[2] + 1>>

\* insertCol / insertRow forgetting cellData.Column++ / Row++
InsertCellKeepsAttr(axis, idx, key, c) == c

\* the cell as insertCol / insertRow leaves it: cellData.Column++ / Row++
InsertCell(axis, idx, key, c) ==
    IF key[axis] < idx THEN c
    ELSE IF axis = 1 THEN [c EXCEPT !.Row = c.Row + 1]
    ELSE [c EXCEPT !.Column = c.Column + 1]

\* newData of insertRow (axis 1) / insertCol (axis 2)
InsertData(axis, idx, d) ==
    [nk \in {InsertKey(axis, idx, k) : k \in DOMAIN d} |->
        LET k == CHOOSE k \in DOMAIN d : InsertKey(axis, idx, k) = nk
        IN  InsertCell(axis, idx, k, d[k])]

\* eliminateCol / eliminateRow storing every kept cell under its old key
EliminateKeyStays(axis, idx, key) == key

\* where eliminateCol / eliminateRow puts the cell stored at key
EliminateKey(axis, idx, key) ==
    IF key[axis] < idx THEN key
    ELSE IF axis = 1 THEN <<key[1] - 1, key[2]>> ELSE <<key[1], key[2] - 1>>

\* eliminateCol / eliminateRow forgetting cellData.Column-- / Row--
EliminateCellKeepsAttr(axis, idx, key, c) == c

\* the cell as eliminateCol / eliminateRow leaves it: cellData.Column-- / Row--
EliminateCell(axis, idx, key, c) ==
    IF key[axis] < idx THEN c
    ELSE IF axis = 1 THEN [c EXCEPT !.Row = c.Row - 1]
    ELSE [c EXCEPT !.Column = c.Column - 1]

\* newData of eliminateRow (axis 1) / eliminateCol (axis 2)
EliminateData(axis, idx, d) ==
    LET kept == {k \in DOMAIN d : k[axis] # idx}
    IN  [nk \in {EliminateKey(axis, idx, k) : k \in kept} |->
            LET k == CHOOSE k \in kept : EliminateKey(axis, idx, k) = nk
            IN  EliminateCell(axis, idx, k, d[k])]

\* insertRowCol / eliminateRowCol: which dialog the selection opens
HeaderDialog(prefix, vr, vc) ==
    LET abs == ToAbsolute(GetActiveViewport, vr, vc)
        row == abs[1]
        col == abs[2]
    IN  IF row = 0 /\ col > 0 THEN [kind |-> prefix \o "Col", idx |-> col]
        ELSE IF col = 0 /\ row > 0 THEN [kind |-> prefix \o "Row", idx |-> row]
        ELSE [kind |-> "warning", idx |-> 0]

\* insertRowCol: the insert key pressed with (vr, vc) selected
insertRowCol(vr, vc) ==
    /\ modal = NoModal
    /\ edits < MaxEdits
    /\ modal' = HeaderDialog("insert", vr, vc)
    /\ edits' = edits + 1
    /\ UNCHANGED <<sheets, activeSheet, hasChanges, currentFile, lastOp, pre,
                   rendered, undone, writes, disk, saved>>

\* eliminateRowCol: the delete key pressed with (vr, vc) selected
eliminateRowCol(vr, vc) ==
    /\ modal = NoModal
    /\ edits < MaxEdits
    /\ modal' = HeaderDialog("eliminate", vr, vc)
    /\ edits' = edits + 1
    /\ UNCHANGED <<sheets, activeSheet, hasChanges, currentFile, lastOp, pre,
                   rendered, undone, writes, disk, saved>>

\* the dialog's SetDoneFunc without the test of the button label
ModalDoneAnyButton(kind, button, newData) ==
    /\ modal.kind = kind
    /\ modal' = NoModal
    /\ lastOp' = [NoOp EXCEPT !.op = kind, !.idx = modal.idx, !.button = button]
    /\ pre' = GetActiveSheetData
    /\ sheets' = SetActiveData(RenderVisible(GetActiveViewport, newData))
    /\ rendered' = newData
    /\ undone' = NotUndone
    /\ UNCHANGED <<activeSheet, hasChanges, currentFile, edits, writes, disk,
                   saved>>

\* the dialog's SetDoneFunc: "Yes" builds newData, installs and renders it
ModalDone(kind, button, newData) ==
    /\ modal.kind = kind
    /\ modal' = NoModal
    /\ lastOp' = [NoOp EXCEPT !.op = kind, !.idx = modal.idx, !.button = button]
    /\ pre' = GetActiveSheetData
    /\ IF button = "Yes"
       THEN /\ sheets' = SetActiveData(RenderVisible(GetActiveViewport, newData))
            /\ rendered' = newData
       ELSE UNCHANGED <<sheets, rendered>>
    /\ undone' = IF /\ button = "Yes" /\ lastOp.button = "Yes"
                    /\ kind \in {"eliminateCol", "eliminateRow"}
                    /\ lastOp.op \in {"insertCol", "insertRow"}
                 THEN [op |-> lastOp, store |-> pre]
                 ELSE NotUndone
    /\ UNCHANGED <<activeSheet, hasChanges, currentFile, edits, writes, disk,
                   saved>>

insertColDone(button) ==
    ModalDone("insertCol", button, InsertData(2, modal.idx, GetActiveSheetData))

insertRowDone(button) ==
    ModalDone("insertRow", button, InsertData(1, modal.idx, GetActiveSheetData))

eliminateColDone(button) ==
    ModalDone("eliminateCol", button, EliminateData(2, modal.idx, GetActiveSheetData))

eliminateRowDone(button) ==
    ModalDone("eliminateRow", button, EliminateData(1, modal.idx, GetActiveSheetData))

\* ShowWarningModal's OK button
warningDone ==
    /\ modal.kind = "warning"
    /\ modal' = NoModal
    /\ lastOp' = [NoOp EXCEPT !.op = "warning", !.button = "OK"]
    /\ pre' = GetActiveSheetData
    /\ undone' = NotUndone
    /\ UNCHANGED <<sheets, activeSheet, hasChanges, currentFile, rendered,
                   edits, writes, disk, saved>>

(***************************************************************************)
(* Panning: the viewport moves by one row or column, clamped to >= 1, and  *)
(* the window is rendered again.                                           *)
(***************************************************************************)
Pan(dr, dc) ==
    LET v == GetActiveViewport
        nv == [v EXCEPT !.TopRow = Max(1, v.TopRow + dr),
                        !.LeftCol = Max(1, v.LeftCol + dc)]
    IN  /\ modal = NoModal
        /\ nv # v
        /\ nv.TopRow <= 1 + MaxPan
        /\ nv.LeftCol <= 1 + MaxPan
        /\ sheets' = [sheets EXCEPT
                        ![activeSheet + 1].Viewport = nv,
                        ![activeSheet + 1].Data = RenderVisible(nv, GetActiveSheetData)]
        /\ lastOp' = [NoOp EXCEPT !.op = "pan"]
        /\ pre' = GetActiveSheetData
        /\ rendered' = GetActiveSheetData
        /\ undone' = NotUndone
        /\ UNCHANGED <<activeSheet, hasChanges, currentFile, modal, edits, writes,
                       disk, saved>>

Buttons == {"Yes", "No"}

Next ==
    \/ \E vr \in 0..ViewRows, vc \in 0..ViewCols : insertRowCol(vr, vc)
    \/ \E vr \in 0..ViewRows, vc \in 0..ViewCols : eliminateRowCol(vr, vc)
    \/ \E b \in Buttons : insertColDone(b)
    \/ \E b \in Buttons : insertRowDone(b)
    \/ \E b \in Buttons : eliminateColDone(b)
    \/ \E b \in Buttons : eliminateRowDone(b)
    \/ warningDone
    \/ \E d \in {<<1, 0>>, <<-1, 0>>, <<0, 1>>, <<0, -1>>} : Pan(d[1], d[2])

Spec == Init /\ [][Next]_vars

(***************************************************************************)
(* Dependency graph and recalculation engine.  A cell's DependsOn and      *)
(* Dependents hold addresses; a text is a formula when it starts with "=". *)
(***************************************************************************)
IsFormulaText(text) == text # <<>> /\ text[1] = Ch("=")

\* the cell references of a text: the tokens matching [A-Z]+[0-9]+
RefsOf(text) ==
    IF IsFormulaText(text)
    THEN {RefAddr(text[i]) : i \in {j \in 1..Len(text) : text[j].t = "ref"}}
    ELSE {}

KeyAddr(key) == Addr(key[1], key[2])

\* the cells reached from start over dependents edges, start included
RECURSIVE DependentsClosure(_, _, _)
DependentsClosure(d, frontier, seen) ==
    IF frontier = {} THEN seen
    ELSE LET next == UNION {{AddrKey(a) : a \in d[k].Dependents} : k \in frontier}
             fresh == (next \cap DOMAIN d) \ seen
         IN  DependentsClosure(d, fresh, seen \cup fresh)

\* the dependencies of the cell at key that lie in the set of keys
DepsIn(d, key, keys) == {AddrKey(a) : a \in d[key].DependsOn} \cap keys

\* the closure in the order of its keys, start first: no topological sort
RECURSIVE UnsortedOrder(_, _, _)
UnsortedOrder(d, remaining, done) ==
    IF remaining = {} THEN done
    ELSE LET n == CHOOSE n \in remaining :
                    \A m \in remaining : n[1] < m[1] \/ (n[1] = m[1] /\ n[2] <= m[2])
         IN  UnsortedOrder(d, remaining \ {n}, Append(done, n))

\* Kahn's algorithm: repeatedly emit a cell with no unprocessed dependency;
\* what is left when none can be emitted is the unorderable subgraph
RECURSIVE TopologicalOrder(_, _, _)
TopologicalOrder(d, remaining, done) ==
    LET ready == {n \in remaining : DepsIn(d, n, remaining) = {}}
    IN  IF ready = {} THEN done
        ELSE LET n == CHOOSE n \in ready : TRUE
             IN  TopologicalOrder(d, remaining \ {n}, Append(done, n))

\* the value the resolver reads from the cell at an address
Resolve(d, a) ==
    LET k == AddrKey(a)
    IN  IF k \in DOMAIN d /\ d[k].Type = "number" /\ Len(d[k].Display) = 1
           /\ d[k].Display[1].t = "num"
        THEN [ok |-> TRUE, n |-> d[k].Display[1].row]
        ELSE [ok |-> FALSE, n |-> 0]

\* the sum of the operands text[i..]
RECURSIVE SumOperands(_, _, _)
SumOperands(d, text, i) ==
    IF i > Len(text) THEN [ok |-> TRUE, n |-> 0]
    ELSE LET rest == SumOperands(d, text, i + 1)
             this == IF text[i].t = "ref" THEN Resolve(d, RefAddr(text[i]))
                     ELSE IF text[i].t = "num" THEN [ok |-> TRUE, n |-> text[i].row]
                     ELSE [ok |-> text[i] = Ch("+"), n |-> 0]
         IN  [ok |-> this.ok /\ rest.ok, n |-> this.n + rest.n]

ErrorTag == <<Ch("#ERR")>>

\* the cell at key with its display value and value kind evaluated
Evaluate(d, key) ==
    LET c == d[key]
        v == SumOperands(d, c.RawValue, 2)
    IN  IF ~IsFormulaText(c.RawValue)
        THEN [c EXCEPT !.Display = c.RawValue,
                       !.Type = IF Len(c.RawValue) = 1 /\ c.RawValue[1].t = "num"
                                THEN "number" ELSE "string"]
        ELSE IF v.ok THEN [c EXCEPT !.Display = <<Num(v.n)>>, !.Type = "number"]
        ELSE [c EXCEPT !.Display = ErrorTag, !.Type = "error"]

\* re-evaluate the cells of order one after the other, each reading the
\* already updated values of the cells before it
RECURSIVE Recalculate(_, _, _)
Recalculate(d, order, i) ==
    IF i > Len(order) THEN d
    ELSE Recalculate([d EXCEPT ![order[i]] = Evaluate(d, order[i])], order, i + 1)

\* the store with the cell at key holding text and the dependency links
\* moved from the old references to the new ones
LinkCell(d, key, text) ==
    LET me == KeyAddr(key)
        old == IF key \in DOMAIN d THEN d[key] ELSE NewCell(key[1], key[2], <<>>)
        newDeps == RefsOf(text)
        oldKeys == {AddrKey(a) : a \in old.DependsOn}
        newKeys == {AddrKey(a) : a \in newDeps}
        cell == [old EXCEPT
                    !.RawValue = text,
                    !.Flags = IF IsFormulaText(text) THEN @ \cup {"Formula"}
                              ELSE @ \ {"Formula"},
                    !.DependsOn = newDeps]
        linked(k) ==
            LET c == IF k = key THEN cell
                     ELSE IF k \in DOMAIN d THEN d[k]
                     ELSE NewCell(k[1], k[2], <<>>)
                unlinked == IF k \in oldKeys THEN c.Dependents \ {me} ELSE c.Dependents
            IN  [c EXCEPT !.Dependents =
                    IF k \in newKeys THEN unlinked \cup {me} ELSE unlinked]
    IN  [k \in DOMAIN d \cup {key} \cup newKeys |-> linked(k)]

\* the unsorted order, as a recalculation without the topological sort takes it
RecalcOrderUnsorted(d, key) ==
    <<key>> \o UnsortedOrder(d, DependentsClosure(d, {key}, {key}) \ {key}, <<>>)

\* the recalculation order of an edit of key: its closure, dependencies first
RecalcOrder(d, key) == TopologicalOrder(d, DependentsClosure(d, {key}, {key}), <<>>)

\* a cycle check that only looks for a reference of the cell to itself
HasCycleSelfOnly(d, key) == KeyAddr(key) \in d[key].DependsOn

\* the closure of key cannot be fully ordered: a dependency cycle
HasCycle(d, key) ==
    \E closure \in {DependentsClosure(d, {key}, {key})} :
        Len(TopologicalOrder(d, closure, <<>>)) < Cardinality(closure)

\* SetCellValue(sheet, row, col, rawText): links, cycle check, recalculation;
\* a cycle rejects the write and leaves the store as it was
SetCellValue(key, text) ==
    \E linked \in {LinkCell(GetActiveSheetData, key, text)} :
    \E cyclic \in {HasCycle(linked, key)} :
    \E order \in {IF cyclic THEN <<>> ELSE RecalcOrder(linked, key)} :
    \E newData \in {IF cyclic THEN linked ELSE Recalculate(linked, order, 1)} :
        /\ modal = NoModal
        /\ lastOp' = [NoOp EXCEPT !.op = "write", !.key = key, !.text = text,
                                  !.button = IF cyclic THEN "cycle" ELSE "ok",
                                  !.order = order]
        /\ pre' = GetActiveSheetData
        /\ IF cyclic
           THEN UNCHANGED <<sheets, rendered, hasChanges>>
           ELSE /\ sheets' = SetActiveData(RenderVisible(GetActiveViewport, newData))
                /\ rendered' = newData
                /\ hasChanges' = TRUE
        /\ undone' = NotUndone
        /\ UNCHANGED <<activeSheet, currentFile, modal, edits, disk, saved>>

\* the cells a write goes to (the selection in the window) and the texts
WriteSelections == {<<1, 1>>, <<1, 2>>, <<2, 1>>, <<2, 2>>}
Seven == <<Num(7)>>
WriteTexts ==
    { Five, Seven,
      <<Ch("="), Ref(1, 1)>>,
      <<Ch("="), Ref(2, 1)>>,
      <<Ch("="), Ref(1, 1), Ch("+"), Ref(2, 1)>> }

\* a raw-text write into the selected cell of the window
Write(sel, text) ==
    /\ sel[1] <= ViewRows /\ sel[2] <= ViewCols
    /\ SetCellValue(ToAbsolute(GetActiveViewport, sel[1], sel[2]), text)

\* New workbook: table.NewTable
InitNew ==
    /\ sheets = NewWorkbook
    /\ activeSheet = 0
    /\ hasChanges = FALSE
    /\ currentFile = NewTableCurrentFile
    /\ modal = NoModal
    /\ lastOp = [NoOp EXCEPT !.op = "new"]
    /\ pre = <<>>
    /\ rendered = <<>>
    /\ undone = NotUndone
    /\ edits = 0
    /\ writes = 0
    /\ disk = NoFile
    /\ saved = <<>>

\* a write that is not counted against MaxWrites
WriteUncounted(sel, text) == Write(sel, text) /\ UNCHANGED writes

NextCalc ==
    \E sel \in WriteSelections, text \in WriteTexts : WriteUncounted(sel, text)

\* raw-text writes into a new workbook
SpecCalc == InitNew /\ [][NextCalc]_vars

(***************************************************************************)
(* Claims on eviction and the structural editor.                           *)
(***************************************************************************)
Confirmed(ops) == lastOp.op \in ops /\ lastOp.button = "Yes"
Axis == IF lastOp.op \in {"insertRow", "eliminateRow"} THEN 1 ELSE 2
\* key moved by n along the axis of the last edit
Moved(key, n) == IF Axis = 1 THEN <<key[1] + n, key[2]>> ELSE <<key[1], key[2] + n>>
\* cell c as it is when stored under key
Stored(c, key) == [c EXCEPT !.Row = key[1], !.Column = key[2]]
\* the content eviction must respect
HasContent(c) ==
    c.RawValue # <<>> \/ IsFormula(c) \/ c.Notes # <<>> \/ c.Valrule # <<>>
\* the empty cells an edit moved beyond the retention margin
MovedOut(store, n) ==
    {k \in DOMAIN store :
        /\ k[Axis] >= lastOp.idx
        /\ isEmptyCell(store[k])
        /\ Distant(GetActiveViewport, Moved(k, n), KeepDistance)}

\* C1: an eviction pass never removes a cell that has raw text, is a
\* formula, has a note or has a validation rule, however far from the
\* viewport: every such cell handed to the render pass is still stored,
\* unchanged, after it.
C1_EvictionKeepsContent ==
    \A k \in DOMAIN rendered :
        HasContent(rendered[k]) =>
            k \in DOMAIN GetActiveSheetData /\ GetActiveSheetData[k] = rendered[k]

\* a render pass evicted some cell while a cell holding only a validation
\* rule lay beyond the margin
C1_Witness ==
    /\ DOMAIN rendered # DOMAIN GetActiveSheetData
    /\ \E k \in DOMAIN rendered :
        /\ Distant(GetActiveViewport, k, KeepDistance)
        /\ rendered[k].Valrule # <<>>
        /\ rendered[k].RawValue = <<>>

\* C2 as stated: after a confirmed insertion before index k every cell that
\* had index >= k is stored at index+1 with its Row/Column attribute equal
\* to the new key, every cell with index < k is stored unchanged at its old
\* key, and the store holds as many cells as before.
C2_InsertShiftsAll ==
    Confirmed({"insertCol", "insertRow"}) =>
        /\ \A k \in DOMAIN pre :
            LET nk == IF k[Axis] >= lastOp.idx THEN Moved(k, 1) ELSE k
            IN  /\ nk \in DOMAIN GetActiveSheetData
                /\ GetActiveSheetData[nk] = Stored(pre[k], nk)
        /\ Cardinality(DOMAIN GetActiveSheetData) = Cardinality(DOMAIN pre)

\* C2 as amended: the same, except for the empty cells that the move takes
\* beyond the retention margin of the viewport; the render pass that ends
\* the insertion evicts exactly those, and the store holds one cell for each
\* other cell it held before.
C2_InsertShiftsKept ==
    Confirmed({"insertCol", "insertRow"}) =>
        /\ \A k \in DOMAIN pre :
            LET nk == IF k[Axis] >= lastOp.idx THEN Moved(k, 1) ELSE k
            IN  IF k \in MovedOut(pre, 1)
                THEN nk \notin DOMAIN GetActiveSheetData
                ELSE /\ nk \in DOMAIN GetActiveSheetData
                     /\ GetActiveSheetData[nk] = Stored(pre[k], nk)
        /\ Cardinality(DOMAIN GetActiveSheetData)
             = Cardinality(DOMAIN pre \ MovedOut(pre, 1))

\* a confirmed insertion that moved a cell to index+1 and pushed an empty
\* cell out of the retention margin
C2_Witness ==
    /\ Confirmed({"insertCol", "insertRow"})
    /\ \E k \in DOMAIN pre : k[Axis] >= lastOp.idx /\ k \notin MovedOut(pre, 1)
    /\ MovedOut(pre, 1) # {}

\* what a confirmed deletion of index k leaves: nothing of the cells at k,
\* the cells beyond k at index-1 with the attribute updated, the cells
\* before k unchanged
DeletionShifts ==
    /\ \A k \in DOMAIN pre :
        /\ k[Axis] < lastOp.idx =>
            /\ k \in DOMAIN GetActiveSheetData
            /\ GetActiveSheetData[k] = pre[k]
        /\ k[Axis] > lastOp.idx =>
            /\ Moved(k, -1) \in DOMAIN GetActiveSheetData
            /\ GetActiveSheetData[Moved(k, -1)] = Stored(pre[k], Moved(k, -1))
    /\ \A nk \in DOMAIN GetActiveSheetData :
        \/ nk[Axis] < lastOp.idx /\ nk \in DOMAIN pre
        \/ nk[Axis] >= lastOp.idx /\ Moved(nk, 1) \in DOMAIN pre

\* the deletion undoes the insertion before it: same axis, same index
Undoes ==
    /\ undone.op.idx = lastOp.idx
    /\ undone.op.op = (IF Axis = 1 THEN "insertRow" ELSE "insertCol")

\* C3 as stated: a confirmed deletion of index k removes the cells at k,
\* shifts the cells beyond k to index-1 and leaves the cells before k; and
\* inserting before k, then deleting index k, restores the original store.
C3_DeleteInvertsInsert ==
    Confirmed({"eliminateCol", "eliminateRow"}) =>
        /\ DeletionShifts
        /\ Undoes => GetActiveSheetData = undone.store

\* C3 as amended: the same, but inserting before k and then deleting index k
\* restores the original store without the empty cells that the insertion
\* moved beyond the retention margin, which its render pass evicted.
C3_DeleteInvertsInsertKept ==
    Confirmed({"eliminateCol", "eliminateRow"}) =>
        /\ DeletionShifts
        /\ Undoes =>
            GetActiveSheetData =
                [k \in DOMAIN undone.store \ MovedOut(undone.store, 1) |->
                    undone.store[k]]

\* a confirmed deletion right after the insertion it undoes, which had
\* moved one cell and pushed an empty cell out of the retention margin
C3_Witness ==
    /\ Confirmed({"eliminateCol", "eliminateRow"})
    /\ Undoes
    /\ \E k \in DOMAIN undone.store :
        k[Axis] >= lastOp.idx /\ k \notin MovedOut(undone.store, 1)
    /\ MovedOut(undone.store, 1) # {}

\* raw-text writes and structural edits on a new workbook, a bounded number
\* of each
WriteCounted(sel, text) ==
    /\ writes < MaxWrites
    /\ Write(sel, text)
    /\ writes' = writes + 1

NextDeps ==
    \/ \E sel \in WriteSelections, text \in WriteTexts : WriteCounted(sel, text)
    \/ \E vr \in 0..ViewRows, vc \in 0..ViewCols : insertRowCol(vr, vc)
    \/ \E vr \in 0..ViewRows, vc \in 0..ViewCols : eliminateRowCol(vr, vc)
    \/ \E b \in Buttons : insertColDone(b)
    \/ \E b \in Buttons : insertRowDone(b)
    \/ \E b \in Buttons : eliminateColDone(b)
    \/ \E b \in Buttons : eliminateRowDone(b)
    \/ warningDone

SpecDeps == InitNew /\ [][NextDeps]_vars

(***************************************************************************)
(* Saving and loading: fileop.SaveWorkbook / SaveWorkbookAsJSON write the  *)
(* sheets to a file, fileop.OpenWorkbook reads them back.                  *)
(***************************************************************************)
Sp == Ch(" ")

\* strings.TrimSpace
RECURSIVE TrimLeft(_)
TrimLeft(text) ==
    IF text # <<>> /\ text[1] = Sp THEN TrimLeft(Tail(text)) ELSE text
RECURSIVE TrimRight(_)
TrimRight(text) ==
    IF text # <<>> /\ text[Len(text)] = Sp
    THEN TrimRight(SubSeq(text, 1, Len(text) - 1)) ELSE text
TrimSpace(text) == TrimRight(TrimLeft(text))

\* cell.StripTviewTags
IsTag(tok) == tok.t = "tag"
StripTviewTags(text) == SelectSeq(text, LAMBDA tok : ~IsTag(tok))

FILEVER == "1.0"

\* sheetData.Cells: one CellData per cell, under the name made from the
\* cell's own Column and Row, with the cleaned raw text beside the cell
CellsToSave(globalData) ==
    LET cName(k) == Addr(globalData[k].Row, globalData[k].Column)
    IN  [n \in {cName(k) : k \in DOMAIN globalData} |->
            LET c == globalData[CHOOSE k \in DOMAIN globalData : cName(k) = n]
            IN  [Cell |-> c,
                 RawValue |-> StripTviewTags(TrimSpace(c.RawValue))]]

\* wbData of SaveWorkbook / SaveWorkbookAsJSON
WorkbookData(shs, active, format) ==
    [Version |-> FILEVER, ActiveSheet |-> active, Format |-> format,
     Sheets |-> [i \in 1..Len(shs) |->
                    [Name |-> shs[i].Name, Cells |-> CellsToSave(shs[i].Data)]]]

\* the workbook is written to a file of the given format
SaveAs(format) ==
    /\ modal = NoModal
    /\ disk' = WorkbookData(sheets, activeSheet, format)
    /\ saved' = sheets
    /\ lastOp' = [NoOp EXCEPT !.op = "save"]
    /\ pre' = GetActiveSheetData
    /\ undone' = NotUndone
    /\ UNCHANGED <<sheets, activeSheet, hasChanges, currentFile, modal, rendered,
                   edits, writes>>

SaveWorkbook == SaveAs(".gsheet")
SaveWorkbookAsJSON == SaveAs(".json")

\* processCellData without c.Cell.RawValue = &c.RawValue
processCellDataKeepsCell(cd) == cd.Cell

\* processCellData: the cell of a CellData, its raw text taken from the
\* CellData's RawValue
processCellData(cd) == [cd.Cell EXCEPT !.RawValue = cd.RawValue]

\* fileop.OpenWorkbook on a .gsheet or .json file
OpenWorkbook(file) ==
    [ActiveSheet |-> file.ActiveSheet, Version |-> file.Version,
     Sheets |-> [i \in 1..Len(file.Sheets) |->
                    [Name |-> file.Sheets[i].Name,
                     Cells |-> {processCellData(file.Sheets[i].Cells[n]) :
                                    n \in DOMAIN file.Sheets[i].Cells}]]]

\* table.OpenTable on the file the last save wrote: a new workbook whose
\* first sheet holds the cells of the file's first sheet, rendered
OpenTable ==
    /\ modal = NoModal
    /\ disk # NoFile
    /\ Len(disk.Sheets) > 0
    /\ \E store \in {StoreOf(OpenWorkbook(disk).Sheets[1].Cells)} :
        /\ sheets' = <<[NewSheet("Sheet1") EXCEPT
                          !.Data = RenderVisible(OriginViewport, store)]>>
        /\ rendered' = store
    /\ activeSheet' = 0
    /\ hasChanges' = FALSE
    /\ currentFile' = "book" \o disk.Format
    /\ lastOp' = [NoOp EXCEPT !.op = "load"]
    /\ pre' = GetActiveSheetData
    /\ undone' = NotUndone
    /\ UNCHANGED <<modal, edits, writes, disk, saved>>

\* cells of the files opened at the start: text with a leading or trailing
\* blank (a value of a tab-delimited text file), text with a colour tag,
\* formatted cells and a formula
SheetCells ==
    { NewCell(1, 1, Five),
      NewCell(1, 1, <<Sp, Num(5)>>),
      [NewCell(1, 2, <<Tag("red"), Ch("x"), Sp>>) EXCEPT !.Flags = {"Bold"}],
      [NewCell(2, 1, Five) EXCEPT !.Color = Red, !.Align = 1],
      [NewCell(2, 2, <<Ch("=1+1")>>) EXCEPT !.Flags = {"Formula"}] }

SheetFiles ==
    {f \in SubsetsUpTo(SheetCells, MaxFileCells) :
        \A a, b \in f : (a.Row = b.Row /\ a.Column = b.Column) => a = b}

InitFile == \E f \in SheetFiles : OpenedFrom(f)

NextFile ==
    \/ SaveWorkbook
    \/ SaveWorkbookAsJSON
    \/ OpenTable
    \/ \E vr \in 0..ViewRows, vc \in 0..ViewCols : insertRowCol(vr, vc)
    \/ \E vr \in 0..ViewRows, vc \in 0..ViewCols : eliminateRowCol(vr, vc)
    \/ \E b \in Buttons : insertColDone(b)
    \/ \E b \in Buttons : insertRowDone(b)
    \/ \E b \in Buttons : eliminateColDone(b)
    \/ \E b \in Buttons : eliminateRowDone(b)
    \/ warningDone

SpecFile == InitFile /\ [][NextFile]_vars

(***************************************************************************)
(* Sheet manager: the handlers of sheetManagerUI.go on top of the          *)
(* workbook's sheet operations (the callbacks).                            *)
(***************************************************************************)
\* the names typed into the dialogs
SheetNames == {"", "Sheet1", "Data"}

NameTaken(shs, name) == \E i \in 1..Len(shs) : shs[i].Name = name

\* the sequence without its element at position i (1-based)
RemoveAt(seq, i) == SubSeq(seq, 1, i - 1) \o SubSeq(seq, i + 1, Len(seq))
\* the sequence with x inserted so that it is at position i (1-based)
InsertAt(seq, i, x) == SubSeq(seq, 1, i - 1) \o <<x>> \o SubSeq(seq, i, Len(seq))

\* Workbook.AddSheet: a new empty sheet at the end; names are unique
AddSheet(shs, name) ==
    IF NameTaken(shs, name) THEN [err |-> TRUE, sheets |-> shs]
    ELSE [err |-> FALSE, sheets |-> Append(shs, NewSheet(name))]

\* Workbook.RenameSheet (index 0-based)
RenameSheet(shs, index, name) ==
    IF \E i \in 1..Len(shs) : i # index + 1 /\ shs[i].Name = name
    THEN [err |-> TRUE, sheets |-> shs]
    ELSE [err |-> FALSE, sheets |-> [shs EXCEPT ![index + 1].Name = name]]

\* Workbook.DeleteSheet: the last remaining sheet cannot be deleted; the
\* active index stays valid
DeleteSheet(shs, active, index) ==
    IF Len(shs) <= 1 THEN [err |-> TRUE, sheets |-> shs, active |-> active]
    ELSE [err |-> FALSE, sheets |-> RemoveAt(shs, index + 1),
          active |-> IF active > index THEN active - 1
                     ELSE IF active = index /\ active = Len(shs) - 1 THEN active - 1
                     ELSE active]

\* Workbook.DuplicateSheet: a copy of the sheet at the end
DuplicateSheet(shs, index) ==
    LET name == shs[index + 1].Name \o " (Copy)"
    IN  IF NameTaken(shs, name) THEN [err |-> TRUE, sheets |-> shs]
        ELSE [err |-> FALSE,
              sheets |-> Append(shs, [shs[index + 1] EXCEPT !.Name = name])]

\* Workbook.MoveSheet: the sheet at from goes to position to; the active
\* sheet stays the sheet it was
MoveSheet(shs, active, from, to) ==
    LET moved == InsertAt(RemoveAt(shs, from + 1), to + 1, shs[from + 1])
        name == shs[active + 1].Name
    IN  [err |-> FALSE, sheets |-> moved,
         active |-> (CHOOSE i \in 1..Len(moved) : moved[i].Name = name) - 1]

\* list.GetCurrentItem(): an item of the sheet list
Selectable == 0..(Len(sheets) - 1)

\* what a sheet-manager handler leaves alone
SheetOpFrame ==
    /\ pre' = GetActiveSheetData
    /\ undone' = NotUndone
    /\ UNCHANGED <<currentFile, rendered, edits, writes, disk, saved>>

\* a handler that ends in ShowWarningModal or returns early: no change
SheetOpRefused(op, index, name) ==
    /\ modal' = [kind |-> "warning", idx |-> 0]
    /\ lastOp' = [NoOp EXCEPT !.op = op, !.idx = index, !.button = "rejected",
                              !.out = name]
    /\ UNCHANGED <<sheets, activeSheet, hasChanges>>

\* a handler that went through: the new sheets, then MarkAsModified
SheetOpDone(op, index, name, shs, active) ==
    /\ sheets' = shs
    /\ activeSheet' = active
    /\ hasChanges' = TRUE
    /\ modal' = NoModal
    /\ lastOp' = [NoOp EXCEPT !.op = op, !.idx = index, !.button = "ok",
                              !.out = name]

\* the name check of the dialogs without its test
NameEmptyNever(name) == FALSE

\* showAddSheetDialog / showRenameSheetFromManager: name == ""
NameEmpty(name) == name = ""

\* showAddSheetDialog, "Create" with the trimmed name entered
showAddSheetDialog(name) ==
    /\ modal = NoModal
    /\ Len(sheets) < MaxSheets
    /\ LET r == AddSheet(sheets, name)
       IN  IF NameEmpty(name) \/ r.err
           THEN SheetOpRefused("addSheet", Len(sheets), name)
           ELSE SheetOpDone("addSheet", Len(sheets), name, r.sheets, activeSheet)
    /\ SheetOpFrame

\* showRenameSheetFromManager, "Rename" with the trimmed name entered
showRenameSheetFromManager(selectedIndex, newName) ==
    /\ modal = NoModal
    /\ LET r == RenameSheet(sheets, selectedIndex, newName)
       IN  IF NameEmpty(newName) \/ r.err
           THEN SheetOpRefused("renameSheet", selectedIndex, newName)
           ELSE SheetOpDone("renameSheet", selectedIndex, newName, r.sheets,
                            activeSheet)
    /\ SheetOpFrame

\* confirmDeleteSheetFromManager without its len(sheets) <= 1 check
OnlySheetLeftNever(shs) == Len(shs) < 1

\* confirmDeleteSheetFromManager: len(sheets) <= 1
OnlySheetLeft(shs) == Len(shs) <= 1

\* confirmDeleteSheetFromManager: the warning for the last sheet, or else
\* the confirmation dialog
confirmDeleteSheetFromManager(selectedIndex) ==
    /\ modal = NoModal
    /\ IF OnlySheetLeft(sheets)
       THEN SheetOpRefused("deleteSheet", selectedIndex, "")
       ELSE /\ modal' = [kind |-> "deleteSheet", idx |-> selectedIndex]
            /\ lastOp' = [NoOp EXCEPT !.op = "deleteSheet", !.idx = selectedIndex,
                                      !.button = "asked"]
            /\ UNCHANGED <<sheets, activeSheet, hasChanges>>
    /\ SheetOpFrame

\* the confirmation dialog's SetDoneFunc: "Delete" deletes the sheet, renders
\* the active sheet and marks the workbook modified
deleteSheetDone(button) ==
    /\ modal.kind = "deleteSheet"
    /\ LET r == DeleteSheet(sheets, activeSheet, modal.idx)
       IN  IF button = "Cancel"
           THEN /\ modal' = NoModal
                /\ lastOp' = [NoOp EXCEPT !.op = "deleteSheetDone",
                                          !.idx = modal.idx, !.button = button]
                /\ UNCHANGED <<sheets, activeSheet, hasChanges>>
           ELSE IF r.err
           THEN SheetOpRefused("deleteSheetDone", modal.idx, "")
           ELSE SheetOpDone("deleteSheetDone", modal.idx, "",
                    [r.sheets EXCEPT ![r.active + 1].Data =
                        RenderVisible(r.sheets[r.active + 1].Viewport, @)],
                    r.active)
    /\ SheetOpFrame

\* duplicateSheetFromManager (copies of copies are left out: the names
\* would grow without bound)
duplicateSheetFromManager(selectedIndex) ==
    /\ modal = NoModal
    /\ Len(sheets) < MaxSheets
    /\ sheets[selectedIndex + 1].Name \in SheetNames
    /\ LET r == DuplicateSheet(sheets, selectedIndex)
       IN  IF r.err
           THEN SheetOpRefused("duplicateSheet", selectedIndex, "")
           ELSE SheetOpDone("duplicateSheet", selectedIndex, "", r.sheets,
                            activeSheet)
    /\ SheetOpFrame

\* showMoveSheetDialog, "Move" to position newPos
showMoveSheetDialog(selectedIndex, newPos) ==
    /\ modal = NoModal
    /\ newPos # selectedIndex
    /\ LET r == MoveSheet(sheets, activeSheet, selectedIndex, newPos)
       IN  SheetOpDone("moveSheet", selectedIndex, "", r.sheets, r.active)
    /\ SheetOpFrame

\* switchToSelectedSheet: the selected sheet becomes active and is rendered
switchToSelectedSheet(selectedIndex) ==
    /\ modal = NoModal
    /\ sheets' = [sheets EXCEPT ![selectedIndex + 1].Data =
                    RenderVisible(sheets[selectedIndex + 1].Viewport, @)]
    /\ activeSheet' = selectedIndex
    /\ lastOp' = [NoOp EXCEPT !.op = "switchSheet", !.idx = selectedIndex,
                              !.button = "ok"]
    /\ UNCHANGED <<hasChanges, modal>>
    /\ SheetOpFrame

NextWB ==
    \/ \E name \in SheetNames : showAddSheetDialog(name)
    \/ \E i \in Selectable, name \in SheetNames : showRenameSheetFromManager(i, name)
    \/ \E i \in Selectable : confirmDeleteSheetFromManager(i)
    \/ \E b \in {"Delete", "Cancel"} : deleteSheetDone(b)
    \/ \E i \in Selectable : duplicateSheetFromManager(i)
    \/ \E i \in Selectable, to \in Selectable : showMoveSheetDialog(i, to)
    \/ \E i \in Selectable : switchToSelectedSheet(i)
    \/ warningDone

SpecWB == InitNew /\ [][NextWB]_vars

(***************************************************************************)
(* Claims on raw-text writes: cycles and recalculation.                    *)
(***************************************************************************)
\* the cells the text of the cell at k refers to, were key to hold text
TextRefKeys(d, k, key, text) ==
    {AddrKey(a) : a \in RefsOf(IF k = key THEN text
                                ELSE IF k \in DOMAIN d THEN d[k].RawValue
                                ELSE <<>>)}

\* the cells reached from the frontier by following references in the texts
RECURSIVE ReachedByText(_, _, _, _, _)
ReachedByText(d, key, text, frontier, seen) ==
    IF frontier = {} THEN seen
    ELSE LET next == UNION {TextRefKeys(d, k, key, text) : k \in frontier}
         IN  ReachedByText(d, key, text, next \ seen, seen \cup next)

\* writing text to key would make key depend on itself
WouldCycle(d, key, text) == key \in ReachedByText(d, key, text, {key}, {})

\* the cells whose text refers, directly or through other cells, to key
DependOnByText(d, key) ==
    {k \in DOMAIN d : key \in ReachedByText(d, key, d[key].RawValue, {k}, {})}

\* C7: a raw-text write that would create a dependency cycle (a reference
\* of the cell to itself or a longer cycle) is rejected with a cycle error,
\* and the store with every depends-on and dependents list is what it was.
C7_CycleRejected ==
    (lastOp.op = "write" /\ WouldCycle(pre, lastOp.key, lastOp.text)) =>
        /\ lastOp.button = "cycle"
        /\ GetActiveSheetData = pre

\* a write rejected for a cycle through another cell
C7_Witness ==
    /\ lastOp.op = "write"
    /\ lastOp.button = "cycle"
    /\ KeyAddr(lastOp.key) \notin RefsOf(lastOp.text)
    /\ \E k \in DOMAIN pre : pre[k].Dependents # {}

\* C8: after an edit of cell A every cell of the transitive closure of A's
\* dependents has been re-evaluated after its own dependencies in the
\* closure and shows the value its formula has on the values now stored;
\* every other cell keeps its raw text, display text and value kind.
C8_ClosureRecalculated ==
    (lastOp.op = "write" /\ lastOp.button = "ok") =>
        LET d == GetActiveSheetData
            closure == DependOnByText(d, lastOp.key) \cup {lastOp.key}
            order == lastOp.order
        IN  /\ {order[i] : i \in 1..Len(order)} = closure
            /\ Len(order) = Cardinality(closure)
            /\ \A i, j \in 1..Len(order) :
                order[j] \in TextRefKeys(d, order[i], lastOp.key, lastOp.text)
                    => j < i
            /\ \A k \in closure : d[k] = Evaluate(d, k)
            /\ \A k \in DOMAIN pre \ closure :
                /\ k \in DOMAIN d
                /\ d[k].RawValue = pre[k].RawValue
                /\ d[k].Display = pre[k].Display
                /\ d[k].Type = pre[k].Type

\* an edit of A in a chain A -> B -> C, where C also reads A, that changed
\* the values of B and C and left a fourth cell alone
C8_Witness ==
    /\ lastOp.op = "write" /\ lastOp.button = "ok"
    /\ LET d == GetActiveSheetData
           closure == DependOnByText(d, lastOp.key)
       IN  /\ \E b, c \in closure :
                /\ b # c
                /\ TextRefKeys(d, c, lastOp.key, lastOp.text) = {lastOp.key, b}
                /\ d[b].Display # pre[b].Display
                /\ d[c].Display # pre[c].Display
                /\ d[c].Type = "number"
           /\ \E k \in DOMAIN pre \ (closure \cup {lastOp.key}) : d[k].RawValue # <<>>

(***************************************************************************)
(* Claims on references across structural edits.                           *)
(***************************************************************************)
\* the address a reference to a must name after the last insertion
ShiftedAddr(a) == KeyAddr(InsertKey(Axis, lastOp.idx, AddrKey(a)))

\* C4: after a row or column insertion every reference to a moved cell, in
\* formula text and in the depends-on and dependents lists, names the moved
\* cell's new coordinate, also when the referring cell itself moved.
C4_ReferencesFollowInsert ==
    Confirmed({"insertCol", "insertRow"}) =>
        \A k \in DOMAIN pre :
            LET nk == InsertKey(Axis, lastOp.idx, k)
                d == GetActiveSheetData
            IN  /\ nk \in DOMAIN d
                /\ RefsOf(d[nk].RawValue) =
                        {ShiftedAddr(a) : a \in RefsOf(pre[k].RawValue)}
                /\ d[nk].DependsOn = {ShiftedAddr(a) : a \in pre[k].DependsOn}
                /\ d[nk].Dependents = {ShiftedAddr(a) : a \in pre[k].Dependents}

\* the remaining formula cells that read a cell of the deleted row or column
ReadersOfDeleted ==
    {k \in DOMAIN pre :
        /\ k[Axis] # lastOp.idx
        /\ IsFormula(pre[k])
        /\ \E a \in pre[k].DependsOn :
            AddrKey(a) \in DOMAIN pre /\ AddrKey(a)[Axis] = lastOp.idx}

\* C5: after the deletion of a row or column every remaining formula cell
\* that depended on a cell of the deleted row or column has value kind
\* error.
C5_DependentsErrorAfterDelete ==
    Confirmed({"eliminateCol", "eliminateRow"}) =>
        \A k \in ReadersOfDeleted :
            LET nk == EliminateKey(Axis, lastOp.idx, k)
                d == GetActiveSheetData
            IN  nk \in DOMAIN d /\ d[nk].Type = "error"

\* C6: the dependency links are symmetric and name the coordinates the
\* cells are stored at: A is in B's depends-on list if and only if B is in
\* A's dependents list.
C6_DependencySymmetry ==
    LET d == GetActiveSheetData
    IN  \A k \in DOMAIN d :
            /\ d[k].Row = k[1] /\ d[k].Column = k[2]
            /\ \A a \in d[k].DependsOn :
                AddrKey(a) \in DOMAIN d /\ KeyAddr(k) \in d[AddrKey(a)].Dependents
            /\ \A a \in d[k].Dependents :
                AddrKey(a) \in DOMAIN d /\ KeyAddr(k) \in d[AddrKey(a)].DependsOn

(***************************************************************************)
(* Claims on saving and loading.                                           *)
(***************************************************************************)
\* the formatting attributes of a cell
Formatting(c) ==
    [Flags |-> c.Flags \ {"Formula"}, Color |-> c.Color, BgColor |-> c.BgColor,
     Align |-> c.Align]

\* a load of the file the store was last saved to: what was loaded is in
\* rendered, what was saved in saved
Loaded == lastOp.op = "load"
SavedStore == saved[1].Data

\* C9 as stated: saving a sheet and loading the result yields the same set
\* of coordinates and, for each coordinate, the same raw text and formatting
\* attributes as the saved store.
C9_RoundTripIdentical ==
    Loaded =>
        /\ DOMAIN rendered = DOMAIN SavedStore
        /\ \A k \in DOMAIN SavedStore :
            /\ rendered[k].RawValue = SavedStore[k].RawValue
            /\ Formatting(rendered[k]) = Formatting(SavedStore[k])

\* C9: saving a sheet and loading the result yields the same set of
\* coordinates and, for each coordinate, the same formatting attributes and
\* the raw text of the saved store with the blanks around it trimmed and
\* then its colour tags stripped.
C9_RoundTripCleaned ==
    Loaded =>
        /\ DOMAIN rendered = DOMAIN SavedStore
        /\ \A k \in DOMAIN SavedStore :
            /\ rendered[k].Row = k[1] /\ rendered[k].Column = k[2]
            /\ rendered[k].RawValue =
                    StripTviewTags(TrimSpace(SavedStore[k].RawValue))
            /\ Formatting(rendered[k]) = Formatting(SavedStore[k])

\* a loaded store whose saved original held a formatted cell, a cell whose
\* raw text the save cleaned, and only cells moved by a structural edit
C9_Witness ==
    /\ Loaded
    /\ \E k \in DOMAIN SavedStore : SavedStore[k].Flags = {"Bold"}
    /\ \E k \in DOMAIN SavedStore :
        SavedStore[k].RawValue # StripTviewTags(TrimSpace(SavedStore[k].RawValue))
    /\ \A k \in DOMAIN SavedStore : k[1] > 1
    /\ DOMAIN rendered = DOMAIN SavedStore

(***************************************************************************)
(* Claims on the sheet collection.                                         *)
(***************************************************************************)
\* C10: the workbook always holds at least one sheet, and a delete
\* requested while exactly one sheet remains is rejected and leaves the
\* sheet list, the active sheet and the modified flag unchanged.
C10_LastSheetKept ==
    /\ [](Len(sheets) >= 1)
    /\ [][(modal = NoModal /\ Len(sheets) = 1 /\ lastOp'.op = "deleteSheet") =>
            /\ lastOp'.button = "rejected"
            /\ modal'.kind # "deleteSheet"
            /\ sheets' = sheets
            /\ activeSheet' = activeSheet
            /\ hasChanges' = hasChanges]_vars

\* the delete of the only sheet left was rejected, after another sheet had
\* been added and the first one deleted
C10_Witness ==
    /\ lastOp.op = "deleteSheet"
    /\ lastOp.button = "rejected"
    /\ Len(sheets) = 1
    /\ sheets[1].Name = "Data"
    /\ hasChanges

(***************************************************************************)
(* Loading any workbook file: fileop.OpenWorkbook on a .gsheet or .json    *)
(* file that was not necessarily written by this program.                  *)
(***************************************************************************)
\* the sheets a file may hold
FileSheets ==
    {[Name |-> n, Cells |-> CellsToSave(StoreOf(f))] :
        n \in SheetNames \ {""}, f \in {{}, {NewCell(1, 1, Five)}}}

\* the sheet lists of a file: none, one or two sheets
FileSheetLists ==
    {<<>>} \cup {<<a>> : a \in FileSheets}
           \cup {<<a, b>> : a \in FileSheets, b \in FileSheets}

\* the values of the file's active_sheet field
FileActiveSheets == -1..2

\* the decoded files: json.NewDecoder(reader).Decode(&wbData)
WorkbookFiles ==
    {[Version |-> FILEVER, ActiveSheet |-> a, Format |-> fmt, Sheets |-> shs] :
        a \in FileActiveSheets, fmt \in {".gsheet", ".json"},
        shs \in FileSheetLists}

\* a new workbook and a file to open
InitLoad ==
    \E file \in WorkbookFiles :
        /\ sheets = NewWorkbook
        /\ activeSheet = 0
        /\ hasChanges = FALSE
        /\ currentFile = NewTableCurrentFile
        /\ modal = NoModal
        /\ lastOp = [NoOp EXCEPT !.op = "new"]
        /\ pre = <<>>
        /\ rendered = <<>>
        /\ undone = NotUndone
        /\ edits = 0
        /\ writes = 0
        /\ disk = file
        /\ saved = <<>>

\* fileop.OpenWorkbook(filename) called on the file: its result is returned
OpenWorkbookFile ==
    /\ modal = NoModal
    /\ lastOp.op # "openWorkbook"
    /\ lastOp' = [NoOp EXCEPT !.op = "openWorkbook", !.out = OpenWorkbook(disk)]
    /\ pre' = GetActiveSheetData
    /\ undone' = NotUndone
    /\ UNCHANGED <<sheets, activeSheet, hasChanges, currentFile, modal, rendered,
                   edits, writes, disk, saved>>

NextLoad ==
    \/ OpenWorkbookFile
    \/ OpenTable

SpecLoad == InitLoad /\ [][NextLoad]_vars

\* C11: the active-sheet index is a valid index, 0 <= index < number of
\* sheets, in the workbook and in what OpenWorkbook returns.
C11_ActiveSheetValid ==
    /\ 0 <= activeSheet /\ activeSheet < Len(sheets)
    /\ lastOp.op = "openWorkbook" =>
        /\ 0 <= lastOp.out.ActiveSheet
        /\ lastOp.out.ActiveSheet < Len(lastOp.out.Sheets)

(***************************************************************************)
(* Claims on sheet names.                                                  *)
(***************************************************************************)
\* the names of the sheets other than the one at index (0-based; -1: none)
OtherNames(shs, index) == {shs[i].Name : i \in 1..Len(shs) \ {index + 1}}

\* the name entered in an add or rename is empty or that of another sheet
NameRefusable ==
    \/ lastOp'.out = ""
    \/ lastOp'.op = "addSheet" /\ lastOp'.out \in OtherNames(sheets, -1)
    \/ lastOp'.op = "renameSheet" /\ lastOp'.out \in OtherNames(sheets, lastOp'.idx)

\* C12: sheet names stay pairwise distinct; an add or rename whose name is
\* empty or equals the name of another sheet is rejected and leaves the
\* sheet list, the names and the modified flag unchanged; a duplicate
\* produces a sheet whose name differs from every existing name.
C12_SheetNamesDistinct ==
    /\ [](\A i, j \in 1..Len(sheets) : sheets[i].Name = sheets[j].Name => i = j)
    /\ [][(modal = NoModal /\ lastOp'.op \in {"addSheet", "renameSheet"}
              /\ NameRefusable) =>
            /\ lastOp'.button = "rejected"
            /\ sheets' = sheets
            /\ hasChanges' = hasChanges]_vars
    /\ [][(modal = NoModal /\ lastOp'.op = "duplicateSheet"
              /\ lastOp'.button = "ok") =>
            /\ Len(sheets') = Len(sheets) + 1
            /\ SubSeq(sheets', 1, Len(sheets)) = sheets
            /\ sheets'[Len(sheets')].Name \notin OtherNames(sheets, -1)]_vars

\* a rename to the name of another sheet was rejected in a workbook that
\* holds a duplicated sheet and is not marked modified by the rejection
C12_Witness ==
    /\ lastOp.op = "renameSheet"
    /\ lastOp.button = "rejected"
    /\ lastOp.out \in OtherNames(sheets, lastOp.idx)
    /\ lastOp.out # ""
    /\ \E i \in 1..Len(sheets) : sheets[i].Name \notin SheetNames

(***************************************************************************)
(* Data validation.  A rule is a text over the placeholder THIS, string    *)
(* literals, number literals, comparison operators and ||.                 *)
(* ShowValidationRuleDialog stores a rule and a message in a cell;         *)
(* EnforceValidationOnEdit gates an edit of the cell by the rule.          *)
(***************************************************************************)
This == Ch("THIS")
\* a string literal "text" inside a rule
Str(text) == [t |-> "str", c |-> "", col |-> text, row |-> 0]
Or == Ch("||")
Cmp(o) == Ch(o)
Comparators == {"==", "!=", ">"}

Yes == <<Ch("Yes")>>
YES == <<Ch("YES")>>
No == <<Ch("No")>>

\* strings.ToUpper on a word, and on a text (string literals included)
UpperWord(w) ==
    CASE w = "Yes" -> "YES"
      [] w = "No" -> "NO"
      [] OTHER -> w
RECURSIVE ToUpper(_)
ToUpper(text) ==
    [i \in 1..Len(text) |->
        IF text[i].t = "ch" THEN [text[i] EXCEPT !.c = UpperWord(text[i].c)]
        ELSE IF text[i].t = "str" THEN [text[i] EXCEPT !.col = ToUpper(text[i].col)]
        ELSE text[i]]

\* strings.ReplaceAll(text, old, new) for a one-token old
RECURSIVE ReplaceAll(_, _, _)
ReplaceAll(text, old, new) ==
    IF text = <<>> THEN <<>>
    ELSE (IF text[1] = old THEN new ELSE <<text[1]>>)
         \o ReplaceAll(Tail(text), old, new)

\* the clauses of an expression, split at ||
RECURSIVE SplitOr(_)
SplitOr(text) ==
    IF \A i \in 1..Len(text) : text[i] # Or THEN <<text>>
    ELSE LET i == CHOOSE j \in 1..Len(text) :
                      text[j] = Or /\ \A k \in 1..(j - 1) : text[k] # Or
         IN  <<SubSeq(text, 1, i - 1)>> \o SplitOr(SubSeq(text, i + 1, Len(text)))

\* an operand: a literal, or a name (a parameter of the expression)
IsLiteral(tok) == tok.t \in {"str", "num"}
IsName(tok) == tok.t \in {"ch", "ref"} /\ tok.c \notin Comparators /\ tok # Or /\ tok # Sp
IsOperand(tok) == IsLiteral(tok) \/ IsName(tok)

\* govaluate.NewEvaluableExpressionWithFunctions returns no error: every
\* clause is an operand or a comparison of two operands
ClauseParses(cl) ==
    \/ Len(cl) = 1 /\ IsOperand(cl[1])
    \/ /\ Len(cl) = 3 /\ IsOperand(cl[1]) /\ IsOperand(cl[3])
       /\ cl[2].t = "ch" /\ cl[2].c \in Comparators
ExpressionParses(text) ==
    \A i \in 1..Len(SplitOr(text)) : ClauseParses(SplitOr(text)[i])

\* the value of a clause under Evaluate(nil): a name has no parameter to
\* read, > orders two numbers, == and != compare any two values
EvaluateClause(cl) ==
    IF \E i \in 1..Len(cl) : IsName(cl[i]) THEN [kind |-> "error", b |-> FALSE]
    ELSE IF Len(cl) = 1 THEN [kind |-> "value", b |-> FALSE]
    ELSE IF cl[2].c = "==" THEN [kind |-> "bool", b |-> cl[1] = cl[3]]
    ELSE IF cl[2].c = "!=" THEN [kind |-> "bool", b |-> cl[1] # cl[3]]
    ELSE IF cl[1].t = "num" /\ cl[3].t = "num"
         THEN [kind |-> "bool", b |-> cl[1].row > cl[3].row]
    ELSE [kind |-> "error", b |-> FALSE]

\* a || b || ...: left to right, a true clause ends the evaluation, a
\* clause that is no boolean is an error
RECURSIVE EvaluateOr(_, _)
EvaluateOr(clauses, i) ==
    LET r == EvaluateClause(clauses[i])
    IN  IF r.kind # "bool" THEN [kind |-> "error", b |-> FALSE]
        ELSE IF r.b \/ i = Len(clauses) THEN r
        ELSE EvaluateOr(clauses, i + 1)

\* the outcome of parsing and evaluating an expression: a parse error, an
\* evaluation error, a value that is no boolean, or a boolean
EvaluateExpression(text) ==
    IF ~ExpressionParses(text) THEN [kind |-> "parseError", b |-> FALSE]
    ELSE IF Len(SplitOr(text)) = 1 THEN EvaluateClause(SplitOr(text)[1])
    ELSE EvaluateOr(SplitOr(text), 1)

\* ValidateValidationRule(ruleText, cellData): no cell reference, and the
\* rule parses with THIS replaced by 5
ValidateValidationRule(ruleText) ==
    \/ TrimSpace(ruleText) = <<>>
    \/ /\ \A i \in 1..Len(ruleText) : ToUpper(ruleText)[i].t # "ref"
       /\ ExpressionParses(ReplaceAll(ToUpper(ruleText), This, <<Num(5)>>))

\* strconv.ParseFloat(normalized, 64) succeeds (the candidates hold no
\* thousands separator and no financial sign)
ParsesAsNumber(newValue) == Len(newValue) = 1 /\ newValue[1].t = "num"

\* the literal THIS is replaced by: the number, or the quoted string (the
\* candidates hold no quote character to escape)
ReplacementValue(cellData, newValue) ==
    IF cellData.Type \in {"number", "financial"} THEN newValue
    ELSE <<Str(newValue)>>

\* CheckValidationRule(cellData, newValue): (isValid, errMsg)
CheckValidationRule(cellData, newValue) ==
    IF TrimSpace(cellData.Valrule) = <<>> THEN [ok |-> TRUE, why |-> ""]
    ELSE IF TrimSpace(newValue) = <<>> THEN [ok |-> TRUE, why |-> ""]
    ELSE IF cellData.Type \in {"number", "financial"} /\ ~ParsesAsNumber(newValue)
         THEN [ok |-> FALSE, why |-> "Value must be a number"]
    ELSE LET rule == TrimSpace(cellData.Valrule)
             upperRule == ToUpper(rule)
             evaluableRule == ReplaceAll(upperRule, This,
                                         ReplacementValue(cellData, newValue))
             result == EvaluateExpression(evaluableRule)
         IN  IF result.kind = "parseError"
             THEN [ok |-> FALSE, why |-> "Invalid validation rule"]
             ELSE IF result.kind = "error"
             THEN [ok |-> FALSE, why |-> "Validation error"]
             ELSE IF result.kind # "bool"
             THEN [ok |-> FALSE, why |-> "Validation rule must return true/false"]
             ELSE IF ~result.b
             THEN [ok |-> FALSE, why |-> "Value does not meet validation rule"]
             ELSE [ok |-> TRUE, why |-> ""]

\* EnforceValidationOnEdit(app, returnTo, cellData, newValue): the value
\* returned; the modal it opens on a failure is part of editCell
EnforceValidationOnEdit(cellData, newValue) ==
    \/ TrimSpace(newValue) = <<>>
    \/ CheckValidationRule(cellData, newValue).ok

\* the "List - Allowed Values" preset: THIS == "v1" || THIS == "v2" || ...
RECURSIVE ListRule(_)
ListRule(values) ==
    IF values = <<>> THEN <<>>
    ELSE <<This, Cmp("=="), Str(TrimSpace(values[1]))>>
         \o (IF Len(values) = 1 THEN <<>> ELSE <<Or>> \o ListRule(Tail(values)))

\* the cells the validation dialog and the editor are opened on
RuleSelections == {<<1, 1>>}
\* the rules typed into the custom-rule area
CustomRules ==
    { <<>>,
      <<This, Cmp(">"), Num(5)>>,
      <<This, Cmp("!="), Str(Yes)>>,
      <<This>>,
      <<Ch("LIMIT"), Cmp(">"), This>>,
      <<This, Cmp("==")>>,
      <<This, Cmp(">"), Ref(1, 1)>> }
\* the value lists typed into the list preset
ListValues == {<<>>, <<Yes, No>>}
\* the custom messages
RuleMessages == {<<>>, <<Ch("pick one")>>}
\* the values typed into a cell
EditValues == {<<Sp>>, Seven, Yes, YES}

ValruleModal == [kind |-> "valrule", idx |-> 0]
InvalidRuleModal == [kind |-> "invalidRule", idx |-> 0]
ValidationFailedModal == [kind |-> "validationFailed", idx |-> 0]

RuleFrame ==
    /\ undone' = NotUndone
    /\ UNCHANGED <<activeSheet, hasChanges, currentFile, rendered, edits, writes,
                   disk, saved>>

\* ShowValidationRuleDialog: the selected cell is created when the store
\* has none, and the dialog opens on it
ShowValidationRuleDialog(sel) ==
    \E key \in {ToAbsolute(GetActiveViewport, sel[1], sel[2])} :
        /\ modal = NoModal
        /\ key[1] # 0 /\ key[2] # 0
        /\ sheets' = SetActiveData(
               [k \in DOMAIN GetActiveSheetData \cup {key} |->
                   IF k \in DOMAIN GetActiveSheetData THEN GetActiveSheetData[k]
                   ELSE NewCell(key[1], key[2], <<>>)])
        /\ modal' = ValruleModal
        /\ lastOp' = [NoOp EXCEPT !.op = "ruleDialog", !.key = key]
        /\ pre' = GetActiveSheetData
        /\ RuleFrame

\* saveRule, after Apply has stored the custom message: the trimmed rule is
\* stored when it is empty or ValidateValidationRule accepts it, otherwise
\* the error modal opens over the dialog
saveRule(ruleText, customMsg) ==
    LET key == lastOp.key
        trimmed == TrimSpace(ruleText)
        accepted == trimmed = <<>> \/ ValidateValidationRule(trimmed)
        withMsg == [GetActiveSheetData[key] EXCEPT !.Valrulemsg = TrimSpace(customMsg)]
    IN  /\ sheets' = SetActiveData(
               [GetActiveSheetData EXCEPT ![key] =
                   IF accepted THEN [withMsg EXCEPT !.Valrule = trimmed]
                   ELSE withMsg])
        /\ modal' = IF accepted THEN NoModal ELSE InvalidRuleModal
        /\ lastOp' = [NoOp EXCEPT !.op = "applyRule", !.key = key,
                                  !.text = trimmed,
                                  !.button = IF accepted THEN "ok" ELSE "invalid"]
        /\ pre' = GetActiveSheetData
        /\ RuleFrame

\* Apply with the Custom preset
applyCustomRule(ruleText, customMsg) ==
    /\ modal = ValruleModal
    /\ saveRule(ruleText, customMsg)

\* Apply with the list preset: an unfilled field opens the error modal and
\* stores nothing
applyListRule(values, customMsg) ==
    /\ modal = ValruleModal
    /\ IF values = <<>>
       THEN /\ modal' = InvalidRuleModal
            /\ lastOp' = [NoOp EXCEPT !.op = "applyRule", !.key = lastOp.key,
                                      !.button = "unfilled"]
            /\ pre' = GetActiveSheetData
            /\ RuleFrame
            /\ UNCHANGED sheets
       ELSE saveRule(ListRule(values), customMsg)

\* the Delete button: deleteRule and back to the sheet
deleteRule ==
    /\ modal = ValruleModal
    /\ sheets' = SetActiveData(
           [GetActiveSheetData EXCEPT ![lastOp.key] =
               [@ EXCEPT !.Valrule = <<>>, !.Valrulemsg = <<>>]])
    /\ modal' = NoModal
    /\ lastOp' = [NoOp EXCEPT !.op = "deleteRule", !.key = lastOp.key]
    /\ pre' = GetActiveSheetData
    /\ RuleFrame

\* the Cancel button and the Escape key
cancelRule ==
    /\ modal = ValruleModal
    /\ modal' = NoModal
    /\ lastOp' = [NoOp EXCEPT !.op = "cancelRule", !.key = lastOp.key]
    /\ pre' = GetActiveSheetData
    /\ RuleFrame
    /\ UNCHANGED sheets

\* OK on showValidationErrorModal: back to the dialog
invalidRuleDone ==
    /\ modal = InvalidRuleModal
    /\ modal' = ValruleModal
    /\ UNCHANGED <<sheets, activeSheet, hasChanges, currentFile, lastOp, pre,
                   rendered, undone, edits, writes, disk, saved>>

\* an edit of the selected cell: the write happens when
\* EnforceValidationOnEdit returns true, otherwise the failure modal is open
\* and nothing is written
editCell(sel, newValue) ==
    \E key \in {ToAbsolute(GetActiveViewport, sel[1], sel[2])} :
    \E cellData \in {IF key \in DOMAIN GetActiveSheetData
                     THEN GetActiveSheetData[key]
                     ELSE NewCell(key[1], key[2], <<>>)} :
        IF EnforceValidationOnEdit(cellData, newValue)
        THEN WriteUncounted(sel, newValue)
        ELSE /\ modal = NoModal
             /\ modal' = ValidationFailedModal
             /\ lastOp' = [NoOp EXCEPT !.op = "editRefused", !.key = key,
                                       !.text = newValue,
                                       !.out = CheckValidationRule(cellData, newValue)]
             /\ pre' = GetActiveSheetData
             /\ RuleFrame
             /\ UNCHANGED sheets

\* OK on the "Validation Failed!" modal
validationFailedDone ==
    /\ modal = ValidationFailedModal
    /\ modal' = NoModal
    /\ UNCHANGED <<sheets, activeSheet, hasChanges, currentFile, lastOp, pre,
                   rendered, undone, edits, writes, disk, saved>>

NextVal ==
    \/ \E sel \in RuleSelections : ShowValidationRuleDialog(sel)
    \/ \E ruleText \in CustomRules, customMsg \in RuleMessages :
           applyCustomRule(ruleText, customMsg)
    \/ \E values \in ListValues, customMsg \in RuleMessages :
           applyListRule(values, customMsg)
    \/ deleteRule
    \/ cancelRule
    \/ invalidRuleDone
    \/ \E sel \in RuleSelections, newValue \in EditValues : editCell(sel, newValue)
    \/ validationFailedDone

\* validation rules and edits in a new workbook
SpecVal == InitNew /\ [][NextVal]_vars

\* the rule as it is stored, with THIS replaced by the candidate, evaluates
\* without error to boolean true
RuleHolds(cellData, newValue) ==
    /\ cellData.Type \in {"number", "financial"} => ParsesAsNumber(newValue)
    /\ \E result \in {EvaluateExpression(
                          ReplaceAll(TrimSpace(cellData.Valrule), This,
                                     ReplacementValue(cellData, newValue)))} :
           result.kind = "bool" /\ result.b

\* the cell an edit was attempted on, as it was before the attempt
EditedCell ==
    IF lastOp.key \in DOMAIN pre THEN pre[lastOp.key]
    ELSE NewCell(lastOp.key[1], lastOp.key[2], <<>>)
\* an edit with a non-blank candidate of a cell with a non-empty rule
RuledEdit ==
    /\ lastOp.op \in {"write", "editRefused"}
    /\ TrimSpace(EditedCell.Valrule) # <<>>
    /\ TrimSpace(lastOp.text) # <<>>

\* C13: for a cell with a non-empty rule and a non-blank candidate,
\* CheckValidationRule reports the value valid only if the rule with THIS
\* replaced by the candidate evaluates without error to boolean true; a
\* rule that fails to parse or to evaluate, or gives a non-boolean, is
\* reported as a failure.
C13_ValidOnlyIfRuleTrue ==
    RuledEdit =>
        /\ CheckValidationRule(EditedCell, lastOp.text).ok
               => RuleHolds(EditedCell, lastOp.text)
        /\ lastOp.op = "write" <=> CheckValidationRule(EditedCell, lastOp.text).ok


\* C14: a candidate that fails the cell's rule is refused (the edit handler
\* gets false from EnforceValidationOnEdit) and the cell's raw text, display
\* text, type, rule and message stay what they were; a blank candidate and
\* a cell without a rule always pass.
C14_FailedEditBlocked ==
    /\ (RuledEdit /\ ~RuleHolds(EditedCell, lastOp.text)) =>
           /\ lastOp.op = "editRefused"
           /\ ~EnforceValidationOnEdit(EditedCell, lastOp.text)
    /\ lastOp.op = "editRefused" =>
           /\ lastOp.key \in DOMAIN GetActiveSheetData <=> lastOp.key \in DOMAIN pre
           /\ lastOp.key \in DOMAIN pre =>
                  \A f \in {"RawValue", "Display", "Type", "Valrule", "Valrulemsg"} :
                      GetActiveSheetData[lastOp.key][f] = pre[lastOp.key][f]
    /\ (/\ lastOp.op \in {"write", "editRefused"}
        /\ (TrimSpace(lastOp.text) = <<>> \/ TrimSpace(EditedCell.Valrule) = <<>>)) =>
           /\ lastOp.op = "write"
           /\ EnforceValidationOnEdit(EditedCell, lastOp.text)


(***************************************************************************)
(* Claim on the atomicity of the structural editor.                        *)
(***************************************************************************)
EditKinds == {"insertCol", "insertRow", "eliminateCol", "eliminateRow"}
\* where the edit of kind at idx puts the cell stored at key
EditKey(kind, idx, key) ==
    IF kind = "insertRow" THEN InsertKey(1, idx, key)
    ELSE IF kind = "insertCol" THEN InsertKey(2, idx, key)
    ELSE IF kind = "eliminateRow" THEN EliminateKey(1, idx, key)
    ELSE EliminateKey(2, idx, key)
\* the cells the edit of kind at idx removes itself: the deleted line
EditDrops(kind, idx, key) ==
    \/ kind = "eliminateRow" /\ key[1] = idx
    \/ kind = "eliminateCol" /\ key[2] = idx

NumV(n) == [k |-> "num", n |-> n, d |-> 1, s |-> <<>>, b |-> FALSE]
StrV(s) == [k |-> "str", n |-> 0, d |-> 1, s |-> s, b |-> FALSE]
BoolV(b) == [k |-> "bool", n |-> 0, d |-> 1, s |-> <<>>, b |-> b]
\* a number that is no fraction of integers, named by what it is
IrrationalV(name) == [k |-> "num", n |-> 0, d |-> 0, s |-> <<name>>, b |-> FALSE]
Nil == [k |-> "nil", n |-> 0, d |-> 1, s |-> <<>>, b |-> FALSE]

NoErr == [kind |-> "none", fn |-> "", want |-> 0, got |-> 0]
Returns(v) == [val |-> v, err |-> NoErr]
Fails(e) == [val |-> Nil, err |-> e]
\* fmt.Errorf("%s requires exactly|at least|accepts at most %d argument(s), got %d")
ArgsErr(kind, funcName, want, got) ==
    [kind |-> kind, fn |-> funcName, want |-> want, got |-> got]
\* fmt.Errorf("FN: %v", err) around a conversion error
ConvertErr(funcName) == [kind |-> "convert", fn |-> funcName, want |-> 0, got |-> 0]
\* fmt.Errorf("start position must be >= 1")
StartErr == [kind |-> "start", fn |-> "", want |-> 0, got |-> 0]

\* validateArgs(funcName, args, minArgs, maxArgs); maxArgs -1 is no maximum
validateArgs(funcName, args, minArgs, maxArgs) ==
    IF Len(args) < minArgs
    THEN IF minArgs = maxArgs
         THEN ArgsErr("exactly", funcName, minArgs, Len(args))
         ELSE ArgsErr("at least", funcName, minArgs, Len(args))
    ELSE IF maxArgs # -1 /\ Len(args) > maxArgs
    THEN ArgsErr("at most", funcName, maxArgs, Len(args))
    ELSE NoErr

Digits == <<"0", "1", "2", "3", "4", "5", "6", "7", "8", "9">>
IsDigit(cp) == \E i \in 1..10 : Digits[i] = cp
DigitValue(cp) == (CHOOSE i \in 1..10 : Digits[i] = cp) - 1
\* fmt.Sscanf(val, "%f", &f): the leading digits are read, what follows them
\* is left alone; no leading digit is an error and leaves f at 0
RECURSIVE ScanDigits(_, _)
ScanDigits(s, acc) ==
    IF s # <<>> /\ IsDigit(s[1]) THEN ScanDigits(Tail(s), 10 * acc + DigitValue(s[1]))
    ELSE acc

\* toFloat(v): (f, err); here ok is err == nil
toFloat(v) ==
    IF v.k = "num" THEN [f |-> v, ok |-> TRUE]
    ELSE IF v.k = "str"
    THEN IF v.s # <<>> /\ IsDigit(v.s[1])
         THEN [f |-> NumV(ScanDigits(v.s, 0)), ok |-> TRUE]
         ELSE [f |-> NumV(0), ok |-> FALSE]
    ELSE [f |-> NumV(0), ok |-> FALSE]

\* float64 arithmetic on the integers and fractions of the model
RECURSIVE Gcd(_, _)
Gcd(a, b) == IF b = 0 THEN a ELSE Gcd(b, a % b)
Abs(n) == IF n < 0 THEN -n ELSE n
Quotient(n, d) ==
    LET g == Gcd(Abs(n), d)
    IN  [k |-> "num", n |-> n \div g, d |-> d \div g, s |-> <<>>, b |-> FALSE]

\* sum += f / product *= f over the arguments, the error of toFloat dropped
RECURSIVE SumArgs(_, _)
SumArgs(args, i) ==
    IF i > Len(args) THEN 0 ELSE toFloat(args[i]).f.n + SumArgs(args, i + 1)
RECURSIVE ProductArgs(_, _)
ProductArgs(args, i) ==
    IF i > Len(args) THEN 1 ELSE toFloat(args[i]).f.n * ProductArgs(args, i + 1)
RECURSIVE FactorialUpTo(_)
FactorialUpTo(n) == IF n < 2 THEN 1 ELSE n * FactorialUpTo(n - 1)

\* the UTF-8 bytes of a string: len(s), s[i:] and strings.Index work on these
MultiByte == {"é"}
Utf8(cp) ==
    IF cp \in MultiByte THEN <<[cp |-> cp, i |-> 1], [cp |-> cp, i |-> 2]>>
    ELSE <<[cp |-> cp, i |-> 1]>>
RECURSIVE Bytes(_)
Bytes(s) == IF s = <<>> THEN <<>> ELSE Utf8(s[1]) \o Bytes(Tail(s))
\* strings.Index(s, substr) on bytes: the 0-based index of the first match, or -1
Index(s, substr) ==
    LET hits == {i \in 0..(Len(s) - Len(substr)) :
                    SubSeq(s, i + 1, i + Len(substr)) = substr}
    IN  IF hits = {} THEN -1 ELSE CHOOSE i \in hits : \A j \in hits : i <= j

\* the zero-argument functions
ConstantFuncs == {"PI", "E", "PHI", "INF", "NAN"}
ClockFuncs == {"NOW", "TODAY"}

\* arg.(bool) on a value that is no bool: the type assertion panics, the
\* function returns nothing and the panic unwinds into its caller
AssertionPanic(funcName) == [kind |-> "panic", fn |-> funcName, want |-> 0, got |-> 0]
Panics(funcName) == [val |-> Nil, err |-> AssertionPanic(funcName)]

\* the loop of IFS from the condition at position i
RECURSIVE IFSFrom(_, _)
IFSFrom(args, i) ==
    IF i >= Len(args) THEN Returns(args[Len(args)])
    ELSE IF args[i].k # "bool" THEN Panics("IFS")
    ELSE IF args[i].b THEN Returns(args[i + 1])
    ELSE IFSFrom(args, i + 2)

\* the loop of AND from the argument at position i
RECURSIVE ANDFrom(_, _)
ANDFrom(args, i) ==
    IF i > Len(args) THEN Returns(BoolV(TRUE))
    ELSE IF args[i].k # "bool" THEN Panics("AND")
    ELSE IF ~args[i].b THEN Returns(BoolV(FALSE))
    ELSE ANDFrom(args, i + 1)

\* the loop of OR from the argument at position i
RECURSIVE ORFrom(_, _)
ORFrom(args, i) ==
    IF i > Len(args) THEN Returns(BoolV(FALSE))
    ELSE IF args[i].k # "bool" THEN Panics("OR")
    ELSE IF args[i].b THEN Returns(BoolV(TRUE))
    ELSE ORFrom(args, i + 1)

\* the loop of XOR from the argument at position i, count true so far
RECURSIVE XORFrom(_, _, _)
XORFrom(args, i, count) ==
    IF i > Len(args) THEN Returns(BoolV(count % 2 = 1))
    ELSE IF args[i].k # "bool" THEN Panics("XOR")
    ELSE XORFrom(args, i + 1, IF args[i].b THEN count + 1 ELSE count)

\* one function of the map GovalFuncs() returns, applied to args
GovalFuncs(fn, args) ==
    CASE fn \in ConstantFuncs -> Returns(IrrationalV(fn))
      [] fn \in ClockFuncs -> Returns(StrV(<<fn>>))
      [] fn = "IF" ->
            IF validateArgs("IF", args, 3, 3) # NoErr
            THEN Fails(validateArgs("IF", args, 3, 3))
            ELSE IF args[1].k # "bool" THEN Panics("IF")
            ELSE IF args[1].b THEN Returns(args[2]) ELSE Returns(args[3])
      [] fn = "IFS" ->
            IF validateArgs("IFS", args, 2, -1) # NoErr
            THEN Fails(validateArgs("IFS", args, 2, -1))
            ELSE IFSFrom(args, 1)
      [] fn = "AND" ->
            IF validateArgs("AND", args, 2, -1) # NoErr
            THEN Fails(validateArgs("AND", args, 2, -1))
            ELSE ANDFrom(args, 1)
      [] fn = "OR" ->
            IF validateArgs("OR", args, 2, -1) # NoErr
            THEN Fails(validateArgs("OR", args, 2, -1))
            ELSE ORFrom(args, 1)
      [] fn = "NOT" ->
            IF validateArgs("NOT", args, 1, 1) # NoErr
            THEN Fails(validateArgs("NOT", args, 1, 1))
            ELSE IF args[1].k # "bool" THEN Panics("NOT")
            ELSE Returns(BoolV(~args[1].b))
      [] fn = "XOR" ->
            IF validateArgs("XOR", args, 2, -1) # NoErr
            THEN Fails(validateArgs("XOR", args, 2, -1))
            ELSE XORFrom(args, 1, 0)
      [] fn = "ABS" ->
            IF validateArgs("ABS", args, 1, 1) # NoErr
            THEN Fails(validateArgs("ABS", args, 1, 1))
            ELSE IF ~toFloat(args[1]).ok THEN Fails(ConvertErr("ABS"))
            ELSE Returns(NumV(Abs(toFloat(args[1]).f.n)))
      [] fn = "SUM" ->
            IF validateArgs("SUM", args, 2, -1) # NoErr
            THEN Fails(validateArgs("SUM", args, 2, -1))
            ELSE Returns(NumV(SumArgs(args, 1)))
      [] fn = "PRODUCT" ->
            IF validateArgs("PRODUCT", args, 2, -1) # NoErr
            THEN Fails(validateArgs("PRODUCT", args, 2, -1))
            ELSE Returns(NumV(ProductArgs(args, 1)))
      [] fn = "AVG" ->
            IF validateArgs("AVG", args, 2, -1) # NoErr
            THEN Fails(validateArgs("AVG", args, 2, -1))
            ELSE Returns(Quotient(SumArgs(args, 1), Len(args)))
      [] fn = "FACTORIAL" ->
            IF validateArgs("FACTORIAL", args, 1, 1) # NoErr
            THEN Fails(validateArgs("FACTORIAL", args, 1, 1))
            ELSE Returns(NumV(FactorialUpTo(toFloat(args[1]).f.n)))
      [] fn = "LEN" ->
            IF validateArgs("LEN", args, 1, 1) # NoErr
            THEN Fails(validateArgs("LEN", args, 1, 1))
            ELSE Returns(NumV(Len(Bytes(args[1].s))))
      [] fn = "LEFT" ->
            IF validateArgs("LEFT", args, 2, 2) # NoErr
            THEN Fails(validateArgs("LEFT", args, 2, 2))
            ELSE IF ~toFloat(args[2]).ok THEN Fails(ConvertErr("LEFT"))
            ELSE LET n == toFloat(args[2]).f.n
                     runes == args[1].s
                 IN  IF n > Len(runes) THEN Returns(StrV(runes))
                     ELSE Returns(StrV(SubSeq(runes, 1, n)))
      [] fn = "RIGHT" ->
            IF validateArgs("RIGHT", args, 2, 2) # NoErr
            THEN Fails(validateArgs("RIGHT", args, 2, 2))
            ELSE IF ~toFloat(args[2]).ok THEN Fails(ConvertErr("RIGHT"))
            ELSE LET n == toFloat(args[2]).f.n
                     runes == args[1].s
                 IN  IF n > Len(runes) THEN Returns(StrV(runes))
                     ELSE Returns(StrV(SubSeq(runes, Len(runes) - n + 1, Len(runes))))
      [] fn = "MID" ->
            IF validateArgs("MID", args, 3, 3) # NoErr
            THEN Fails(validateArgs("MID", args, 3, 3))
            ELSE IF ~toFloat(args[2]).ok \/ ~toFloat(args[3]).ok
            THEN Fails(ConvertErr("MID"))
            ELSE LET startIdx == Max(0, toFloat(args[2]).f.n - 1)
                     n == toFloat(args[3]).f.n
                     runes == args[1].s
                 IN  IF startIdx + n > Len(runes)
                     THEN Returns(StrV(SubSeq(runes, startIdx + 1, Len(runes))))
                     ELSE Returns(StrV(SubSeq(runes, startIdx + 1, startIdx + n)))
      [] fn = "FIND" ->
            IF validateArgs("FIND", args, 2, 3) # NoErr
            THEN Fails(validateArgs("FIND", args, 2, 3))
            ELSE IF Len(args) > 2 /\ ~toFloat(args[3]).ok THEN Fails(ConvertErr("FIND"))
            ELSE LET findText == Bytes(args[1].s)
                     withinText == Bytes(args[2].s)
                     startPos == IF Len(args) > 2 THEN toFloat(args[3]).f.n ELSE 1
                     pos == Index(SubSeq(withinText, startPos, Len(withinText)),
                                  findText)
                 IN  IF startPos < 1 THEN Fails(StartErr)
                     ELSE IF startPos > Len(withinText) THEN Returns(NumV(-1))
                     ELSE IF pos = -1 THEN Returns(NumV(-1))
                     ELSE Returns(NumV(pos + startPos))

\* the arguments the calls are drawn from: text arguments are strings,
\* positions and lengths are numbers >= 0
MaxPos == 3
Texts ==
    { <<>>, <<"a">>, <<"é">>, <<"é", "a">>, <<"a", "é", "a">> }
NumericArgs ==
    { NumV(2), NumV(-3), StrV(<<"7">>), StrV(<<"a">>), BoolV(TRUE), BoolV(FALSE) }
Positions == {NumV(p) : p \in 0..MaxPos}
Calls ==
    {[fn |-> fn, args |-> args] :
        fn \in ConstantFuncs \cup ClockFuncs, args \in {<<>>, <<NumV(2)>>}}
    \cup {[fn |-> fn, args |-> args] :
        fn \in {"ABS", "FACTORIAL"},
        args \in {<<>>} \cup {<<x>> : x \in NumericArgs}
                 \cup {<<NumV(2), NumV(2)>>}}
    \cup {[fn |-> fn, args |-> args] :
        fn \in {"SUM", "AVG", "PRODUCT"},
        args \in {<<x>> : x \in NumericArgs}
                 \cup {<<x, y>> : x, y \in NumericArgs}}
    \cup {[fn |-> "LEN", args |-> args] :
        args \in {<<>>} \cup {<<StrV(s)>> : s \in Texts}
                 \cup {<<StrV(s), StrV(s)>> : s \in Texts}}
    \cup {[fn |-> fn, args |-> args] :
        fn \in {"LEFT", "RIGHT"},
        args \in {<<StrV(s)>> : s \in Texts}
                 \cup {<<StrV(s), n>> : s \in Texts, n \in Positions}}
    \cup {[fn |-> "MID", args |-> args] :
        args \in {<<StrV(s), p>> : s \in Texts, p \in Positions}
                 \cup {<<StrV(s), p, n>> : s \in Texts, p, n \in Positions}}
    \cup {[fn |-> "FIND", args |-> args] :
        args \in {<<StrV(s)>> : s \in Texts}
                 \cup {<<StrV(f), StrV(s)>> : f, s \in Texts \ {<<>>}}
                 \cup {<<StrV(f), StrV(s), p>> :
                          f, s \in Texts \ {<<>>}, p \in Positions}}

\* a formula is about to call a function of the library
InitFn ==
    \E call \in Calls :
        /\ sheets = NewWorkbook
        /\ activeSheet = 0
        /\ hasChanges = FALSE
        /\ currentFile = NewTableCurrentFile
        /\ modal = NoModal
        /\ lastOp = [NoOp EXCEPT !.op = "call", !.button = call.fn,
                                 !.order = call.args]
        /\ pre = <<>>
        /\ rendered = <<>>
        /\ undone = NotUndone
        /\ edits = 0
        /\ writes = 0
        /\ disk = NoFile
        /\ saved = <<>>

\* the call returns
CallFunction ==
    /\ lastOp.op = "call"
    /\ lastOp' = [lastOp EXCEPT !.op = "return",
                                !.out = GovalFuncs(lastOp.button, lastOp.order)]
    /\ UNCHANGED <<sheets, activeSheet, hasChanges, currentFile, modal, pre,
                   rendered, undone, edits, writes, disk, saved>>

NextFn == CallFunction

SpecFn == InitFn /\ [][NextFn]_vars

\* the range of argument counts a function declares: <<min, max>>, max -1
\* for no maximum
DeclaredArgs(fn) ==
    CASE fn \in ConstantFuncs \cup ClockFuncs -> <<0, 0>>
      [] fn \in {"ABS", "FACTORIAL", "LEN"} -> <<1, 1>>
      [] fn \in {"SUM", "AVG", "PRODUCT"} -> <<2, -1>>
      [] fn \in {"LEFT", "RIGHT"} -> <<2, 2>>
      [] fn = "MID" -> <<3, 3>>
      [] fn = "FIND" -> <<2, 3>>
OutsideDeclared(fn, count) ==
    \/ count < DeclaredArgs(fn)[1]
    \/ DeclaredArgs(fn)[2] # -1 /\ count > DeclaredArgs(fn)[2]
Returned == lastOp.op = "return"

\* C16: a function called with a number of arguments outside its declared
\* range returns no value and an error that names the function, the
\* expected count and the received count; the zero-argument functions PI,
\* E, PHI, INF, NAN, NOW and TODAY called with arguments included.
C16_ArgumentCountChecked ==
    (Returned /\ OutsideDeclared(lastOp.button, Len(lastOp.order))) =>
        /\ lastOp.out.val = Nil
        /\ lastOp.out.err.kind \in {"exactly", "at least", "at most"}
        /\ lastOp.out.err.fn = lastOp.button
        /\ lastOp.out.err.want \in {DeclaredArgs(lastOp.button)[1],
                                    DeclaredArgs(lastOp.button)[2]}
        /\ lastOp.out.err.got = Len(lastOp.order)


\* the stated coercion of a value to a number: a number passes through, a
\* string of digits is parsed, true is 1 and false is 0
Coercible(v) ==
    \/ v.k \in {"num", "bool"}
    \/ v.k = "str" /\ v.s # <<>> /\ \A i \in 1..Len(v.s) : IsDigit(v.s[i])
Coerced(v) ==
    IF v.k = "num" THEN v
    ELSE IF v.k = "bool" THEN NumV(IF v.b THEN 1 ELSE 0)
    ELSE NumV(ScanDigits(v.s, 0))
NumericFuncs == {"ABS", "SUM", "AVG", "PRODUCT", "FACTORIAL"}

\* C17: every argument of a numeric function is coerced by the stated
\* rule: the call returns what it returns on the coerced numbers (number
\* as it is, string parsed, true 1.0, false 0.0), and an argument that
\* cannot be converted makes it return an error and no value; SUM, AVG,
\* PRODUCT and FACTORIAL never count such an argument as 0.
C17_CoercionOrError ==
    (/\ Returned
     /\ lastOp.button \in NumericFuncs
     /\ ~OutsideDeclared(lastOp.button, Len(lastOp.order))) =>
        IF \A i \in 1..Len(lastOp.order) : Coercible(lastOp.order[i])
        THEN lastOp.out = GovalFuncs(lastOp.button,
                                     [i \in 1..Len(lastOp.order) |->
                                         Coerced(lastOp.order[i])])
        ELSE lastOp.out.val = Nil /\ lastOp.out.err # NoErr

\* the 1-based code-point index of the first match of find in within at or
\* after the code-point position start; 0 when there is none
FirstMatch(find, within, start) ==
    LET hits == {i \in start..(Len(within) - Len(find) + 1) :
                    SubSeq(within, i, i + Len(find) - 1) = find}
    IN  IF hits = {} THEN 0 ELSE CHOOSE i \in hits : \A j \in hits : i <= j
Min(a, b) == IF a < b THEN a ELSE b

\* C18: FIND, LEN, LEFT, RIGHT and MID count 1-based code points, for
\* texts with multi-byte characters too: LEN returns the number of code
\* points, FIND the code-point index of the first match at or after the
\* code-point start position, LEFT, RIGHT and MID the code points asked for.
C18_CodePointPositions ==
    (Returned /\ ~OutsideDeclared(lastOp.button, Len(lastOp.order))) =>
        LET args == lastOp.order
        IN  /\ lastOp.button = "LEN" =>
                lastOp.out = Returns(NumV(Len(args[1].s)))
            /\ lastOp.button = "LEFT" =>
                lastOp.out = Returns(StrV(SubSeq(args[1].s, 1,
                                                 Min(args[2].n, Len(args[1].s)))))
            /\ lastOp.button = "RIGHT" =>
                lastOp.out = Returns(StrV(SubSeq(args[1].s,
                                 Len(args[1].s) - Min(args[2].n, Len(args[1].s)) + 1,
                                 Len(args[1].s))))
            /\ lastOp.button = "MID" =>
                lastOp.out = Returns(StrV(SubSeq(args[1].s, Max(1, args[2].n),
                                 Min(Max(1, args[2].n) + args[3].n - 1,
                                     Len(args[1].s)))))
            /\ (/\ lastOp.button = "FIND"
                /\ \E start \in {IF Len(args) > 2 THEN args[3].n ELSE 1} :
                       start >= 1 /\ FirstMatch(args[1].s, args[2].s, start) # 0) =>
                lastOp.out = Returns(NumV(FirstMatch(args[1].s, args[2].s,
                                 IF Len(args) > 2 THEN args[3].n ELSE 1)))


(***************************************************************************)
(* Claims on the eviction pass.                                            *)
(***************************************************************************)
\* key lies outside the visible rows and columns widened by margin on
\* every side, rows and columns starting at 1
OutsideMargin(v, key, margin) ==
    \/ key[1] < Max(1, v.TopRow - margin)
    \/ key[1] > (v.TopRow + v.ViewRows - 1) + margin
    \/ key[2] < Max(1, v.LeftCol - margin)
    \/ key[2] > (v.LeftCol + v.ViewCols - 1) + margin

\* C19: the eviction pass that ends a render pass removes a stored cell if
\* and only if the cell is judged empty and its row lies outside
\* [max(1, top-100), (top+rows-1)+100] or its column outside
\* [max(1, left-100), (left+cols-1)+100]; every other cell handed to the
\* render pass is still stored, unchanged, after it.
C19_EvictionExactlyBeyondMargin ==
    /\ DOMAIN GetActiveSheetData \subseteq DOMAIN rendered
    /\ \A k \in DOMAIN rendered :
        IF isEmptyCell(rendered[k]) /\ OutsideMargin(GetActiveViewport, k, KeepDistance)
        THEN k \notin DOMAIN GetActiveSheetData
        ELSE k \in DOMAIN GetActiveSheetData /\ GetActiveSheetData[k] = rendered[k]

StyleFlags == {"Bold", "Italic", "Underline", "Strikethrough", "AllCaps"}
\* the cell carries a style flag or a colour that is not the default
Styled(c) == c.Flags \cap StyleFlags # {} \/ c.Color # White \/ c.BgColor # Black

\* C20: a cell whose only state is a style flag (bold, italic, underline,
\* strikethrough, all-caps) or a non-default foreground or background
\* colour is never judged empty: the eviction pass leaves it stored at any
\* distance from the viewport.
C20_StyledCellsKept ==
    \A k \in DOMAIN rendered :
        Styled(rendered[k]) =>
            /\ ~isEmptyCell(rendered[k])
            /\ k \in DOMAIN GetActiveSheetData


(***************************************************************************)
(* The window RenderVisible draws.                                         *)
(***************************************************************************)
\* Viewport.ToRelative: absolute (row, col) -> visible (row-top+1, col-left+1)
ToRelative(v, row, col) == <<row - v.TopRow + 1, col - v.LeftCol + 1>>
\* Viewport.IsVisible
IsVisible(v, row, col) ==
    /\ v.TopRow <= row /\ row < v.TopRow + v.ViewRows
    /\ v.LeftCol <= col /\ col < v.LeftCol + v.ViewCols

\* RenderVisible's visualRow / visualCol taken without the + 1
VisualIndexZeroBased(first, i) == i - first
\* RenderVisible: visualRow := r - vp.TopRow + 1, visualCol := c - vp.LeftCol + 1
VisualIndex(first, i) == i - first + 1

\* the table cells RenderVisible sets in its double loop: where, for which
\* key, and whether from a stored cell or blank
DrawnCells(v, d) ==
    {[vr |-> VisualIndex(v.TopRow, r), vc |-> VisualIndex(v.LeftCol, c),
      key |-> <<r, c>>, stored |-> <<r, c>> \in DOMAIN d] :
        r \in v.TopRow..(v.TopRow + v.ViewRows - 1),
        c \in v.LeftCol..(v.LeftCol + v.ViewCols - 1)}

\* render passes after writes and pans in a new workbook
NextWindow ==
    \/ \E sel \in WriteSelections : WriteCounted(sel, Seven)
    \/ \E d \in {<<1, 0>>, <<-1, 0>>, <<0, 1>>, <<0, -1>>} : Pan(d[1], d[2])

SpecWindow == InitNew /\ [][NextWindow]_vars

\* C21: RenderVisible draws the stored cell at absolute (r, c) at visible
\* position (r-top+1, c-left+1) exactly when top <= r < top+rows and
\* left <= c < left+cols, draws no cell outside that range, and the
\* mapping is the inverse of visible -> absolute: relative and back is the
\* identity on the visible coordinates.
C21_WindowMapping ==
    \E v \in {GetActiveViewport} :
    \E drawn \in {DrawnCells(v, rendered)} :
        /\ v.TopRow >= 1 /\ v.LeftCol >= 1
        /\ \A k \in DOMAIN rendered :
            /\ (\E dr \in drawn : dr.key = k /\ dr.stored)
                   <=> (/\ v.TopRow <= k[1] /\ k[1] < v.TopRow + v.ViewRows
                        /\ v.LeftCol <= k[2] /\ k[2] < v.LeftCol + v.ViewCols)
            /\ \A dr \in drawn :
                dr.key = k =>
                    dr.vr = k[1] - v.TopRow + 1 /\ dr.vc = k[2] - v.LeftCol + 1
        /\ \A dr \in drawn :
            /\ dr.vr \in 1..v.ViewRows /\ dr.vc \in 1..v.ViewCols
            /\ IsVisible(v, dr.key[1], dr.key[2])
            /\ ToAbsolute(v, dr.vr, dr.vc) = dr.key
            /\ ToRelative(v, dr.key[1], dr.key[2]) = <<dr.vr, dr.vc>>
        /\ \A vr \in 1..v.ViewRows, vc \in 1..v.ViewCols :
            LET abs == ToAbsolute(v, vr, vc)
            IN  /\ ToRelative(v, abs[1], abs[2]) = <<vr, vc>>
                /\ \E dr \in drawn : dr.vr = vr /\ dr.vc = vc /\ dr.key = abs

\* a viewport away from the origin with one stored cell in the window and
\* one outside it
C21_Witness ==
    /\ GetActiveViewport.TopRow > 1
    /\ \E k \in DOMAIN rendered :
        IsVisible(GetActiveViewport, k[1], k[2])
    /\ \E k \in DOMAIN rendered :
        /\ k[1] < GetActiveViewport.TopRow
        /\ \A dr \in DrawnCells(GetActiveViewport, rendered) : dr.key # k


\* C22: after loading a file and any sequence of confirmed insertions and
\* deletions and render passes, every store entry with key (r, c) holds a
\* cell whose Row is r and whose Column is c, and no cell is stored under
\* two keys: both in the store handed to the render pass and in the store
\* it leaves, and a confirmed edit stores one cell for each cell it keeps.
C22_KeysAgreeWithCells ==
    /\ \A store \in {GetActiveSheetData, rendered} :
        /\ \A k \in DOMAIN store : store[k].Row = k[1] /\ store[k].Column = k[2]
        /\ \A k1, k2 \in DOMAIN store : store[k1] = store[k2] => k1 = k2
    /\ Confirmed(EditKinds) =>
        /\ Cardinality(DOMAIN rendered)
             = Cardinality({k \in DOMAIN pre : ~EditDrops(lastOp.op, lastOp.idx, k)})
        /\ \A k \in DOMAIN pre :
            ~EditDrops(lastOp.op, lastOp.idx, k) =>
                /\ EditKey(lastOp.op, lastOp.idx, k) \in DOMAIN rendered
                /\ rendered[EditKey(lastOp.op, lastOp.idx, k)].RawValue = pre[k].RawValue

\* a confirmed deletion that dropped a cell of the deleted line and stored
\* another cell of the loaded file one index lower
C22_Witness ==
    /\ Confirmed({"eliminateCol", "eliminateRow"})
    /\ \E k \in DOMAIN pre : EditDrops(lastOp.op, lastOp.idx, k)
    /\ \E k \in DOMAIN pre :
        /\ k[Axis] > lastOp.idx
        /\ EditKey(lastOp.op, lastOp.idx, k) # k
        /\ EditKey(lastOp.op, lastOp.idx, k) \in DOMAIN GetActiveSheetData


(***************************************************************************)
(* Saving after writes: a new workbook, raw-text writes, structural edits,  *)
(* saves and loads of what was saved.                                      *)
(***************************************************************************)
SaveSelections == {<<1, 1>>, <<1, 2>>}
SaveTexts == {Seven, <<Ch("="), Ref(1, 1)>>}
NextSave ==
    \/ \E sel \in SaveSelections, text \in SaveTexts : WriteCounted(sel, text)
    \/ SaveWorkbook
    \/ SaveWorkbookAsJSON
    \/ OpenTable
    \/ \E vr \in 0..ViewRows, vc \in 0..ViewCols : insertRowCol(vr, vc)
    \/ \E vr \in 0..ViewRows, vc \in 0..ViewCols : eliminateRowCol(vr, vc)
    \/ \E b \in Buttons : insertColDone(b)
    \/ \E b \in Buttons : insertRowDone(b)
    \/ \E b \in Buttons : eliminateColDone(b)
    \/ \E b \in Buttons : eliminateRowDone(b)
    \/ warningDone

SpecSave == InitNew /\ [][NextSave]_vars

\* C23: SaveWorkbook persists each stored cell of a sheet under the
\* address made of the cell's column letters and row number, and the
\* persisted cell map has exactly one entry per stored cell: no two cells
\* under one key, no cell left out.
C23_OneEntryPerCell ==
    disk # NoFile =>
        /\ Len(disk.Sheets) = Len(saved)
        /\ \A i \in 1..Len(saved) :
            LET cells == disk.Sheets[i].Cells
                store == saved[i].Data
            IN  /\ DOMAIN cells = {<<ColumnName(k[2]), k[1]>> : k \in DOMAIN store}
                /\ Cardinality(DOMAIN cells) = Cardinality(DOMAIN store)
                /\ \A k \in DOMAIN store :
                    /\ cells[<<ColumnName(k[2]), k[1]>>].Cell = store[k]
                    /\ <<ColumnName(store[k].Column), store[k].Row>>
                           = <<ColumnName(k[2]), k[1]>>

\* a save of a store holding a written cell and a cell of the file that a
\* structural edit moved, both in one row
C23_Witness ==
    /\ disk # NoFile
    /\ lastOp.op = "save"
    /\ writes > 0
    /\ edits > 0
    /\ \E k1, k2 \in DOMAIN saved[1].Data :
        /\ k1[1] = k2[1] /\ k1[2] < k2[2]
        /\ k2[2] > ViewCols
        /\ <<ColumnName(k2[2]), k2[1]>> \in DOMAIN disk.Sheets[1].Cells


(***************************************************************************)
(* Eviction under formulas: writes of formulas that refer to a cell        *)
(* beyond the retention margin, and panning.                               *)
(***************************************************************************)
FarRef == Ref(EdgeRow + 1, 1)
EvictTexts == {Seven, <<Ch("="), Ref(1, 1)>>, <<Ch("="), FarRef>>}
NextEvict ==
    \/ \E sel \in WriteSelections, text \in EvictTexts : WriteCounted(sel, text)
    \/ \E d \in {<<1, 0>>, <<-1, 0>>, <<0, 1>>, <<0, -1>>} : Pan(d[1], d[2])

SpecEvict == InitNew /\ [][NextEvict]_vars

\* C24: an eviction pass never removes a cell that a stored cell lists in
\* its depends-on list: after a render pass, for every stored formula cell
\* B and every address A in B's depends-on list, either A was absent before
\* the pass or A is still stored with B in its dependents list.
C24_ReferencedCellsKept ==
    \A b \in DOMAIN GetActiveSheetData :
        \A a \in GetActiveSheetData[b].DependsOn :
            AddrKey(a) \in DOMAIN rendered =>
                /\ AddrKey(a) \in DOMAIN GetActiveSheetData
                /\ KeyAddr(b) \in GetActiveSheetData[AddrKey(a)].Dependents


(***************************************************************************)
(* Claim on the header selection of the structural editor.                 *)
(***************************************************************************)
\* the dialog a request with (vr, vc) selected is to open: the edit of the
\* absolute column or row of the selected header, or the warning
HeaderEdit(prefix, vr, vc) ==
    IF vr = 0 /\ vc >= 1
    THEN [kind |-> prefix \o "Col", idx |-> GetActiveViewport.LeftCol + vc - 1]
    ELSE IF vc = 0 /\ vr >= 1
    THEN [kind |-> prefix \o "Row", idx |-> GetActiveViewport.TopRow + vr - 1]
    ELSE [kind |-> "warning", idx |-> 0]

\* C25: at every viewport position, insert or delete requested on a column
\* header (visible row 0, visible column vc >= 1) edits absolute column
\* left+vc-1, requested on a row header (visible column 0, visible row
\* vr >= 1) edits absolute row top+vr-1, and only a selection that is no
\* header gets the warning.
C25_HeaderSelectsLine ==
    [][\A vr \in 0..ViewRows, vc \in 0..ViewCols :
        /\ insertRowCol(vr, vc) => modal' = HeaderEdit("insert", vr, vc)
        /\ eliminateRowCol(vr, vc) => modal' = HeaderEdit("eliminate", vr, vc)]_vars


(***************************************************************************)
(* Opening a file by path: table.OpenTable over fileop.OpenTable and       *)
(* fileop.OpenWorkbook, with the paths on which the load fails.            *)
(***************************************************************************)
\* a file that loads: it exists, its content reads (gzip header, JSON, text
\* lines) and it decodes to a workbook of the current version with one sheet
GoodFile(ext) ==
    [Exists |-> TRUE, Ext |-> ext, Decodes |-> TRUE, Version |-> FILEVER,
     Sheets |-> <<{NewCell(1, 1, Five)}>>]

\* the files a path may name: good ones of each extension, a missing one,
\* unreadable ones, one without sheets, and ones without a version
OpenFiles ==
    { GoodFile(".gsheet"), GoodFile(".json"), GoodFile(".txt"),
      GoodFile(".csv"),
      [GoodFile(".json") EXCEPT !.Exists = FALSE],
      [GoodFile(".gsheet") EXCEPT !.Decodes = FALSE],
      [GoodFile(".txt") EXCEPT !.Decodes = FALSE],
      [GoodFile(".json") EXCEPT !.Sheets = <<>>],
      [GoodFile(".json") EXCEPT !.Version = ""],
      [GoodFile(".json") EXCEPT !.Version = "", !.Sheets = <<>>] }

LoadError == [kind |-> "err", Sheets |-> <<>>]
LoadFatal == [kind |-> "fatal", Sheets |-> <<>>]
LoadOk(shs) == [kind |-> "ok", Sheets |-> shs]

\* openLegacyFormat: it calls fileop.OpenTable(filename), which calls
\* OpenWorkbook on the same file and arrives at openLegacyFormat again; the
\* recursion has no base case and ends when the stack limit is exceeded,
\* a fatal error of the runtime that no caller can recover from
openLegacyFormat(file) == LoadFatal

\* fileop.OpenWorkbook(filename): the sheets loaded, or an error
OpenWorkbookAt(file) ==
    IF ~file.Exists THEN LoadError
    ELSE IF file.Ext = ".txt"
    THEN IF file.Decodes
         THEN LoadOk(<<IF Len(file.Sheets) = 0 THEN {} ELSE file.Sheets[1]>>)
         ELSE LoadError
    ELSE IF file.Ext \notin {".gsheet", ".json"} THEN LoadError
    ELSE IF ~file.Decodes THEN LoadError
    ELSE IF file.Version = "" /\ Len(file.Sheets) = 0
    THEN openLegacyFormat(file)
    ELSE LoadOk(file.Sheets)

\* fileop.OpenTable(filename): the cells of the first sheet, or an error
fileopOpenTable(file) ==
    LET result == OpenWorkbookAt(file)
    IN  IF result.kind # "ok" THEN result
        ELSE IF Len(result.Sheets) = 0 THEN LoadError
        ELSE LoadOk(<<result.Sheets[1]>>)

Fatal == [kind |-> "fatal", idx |-> 0]

\* table.OpenTable(app, filename): nil when the load fails, else a new
\* workbook holding the cells of the first sheet, rendered
OpenTableAt(file) ==
    /\ modal = NoModal
    /\ \E r \in {fileopOpenTable(file)} :
        \/ /\ r.kind = "err"
           /\ lastOp' = [NoOp EXCEPT !.op = "openTable", !.button = "nil"]
           /\ UNCHANGED <<sheets, activeSheet, hasChanges, currentFile, modal,
                          rendered>>
        \/ /\ r.kind = "fatal"
           /\ lastOp' = [NoOp EXCEPT !.op = "openTable", !.button = "fatal"]
           /\ modal' = Fatal
           /\ UNCHANGED <<sheets, activeSheet, hasChanges, currentFile,
                          rendered>>
        \/ /\ r.kind = "ok"
           /\ \E store \in {StoreOf(r.Sheets[1])} :
                /\ sheets' = <<[NewSheet("Sheet1") EXCEPT
                                  !.Data = RenderVisible(OriginViewport, store)]>>
                /\ rendered' = store
           /\ activeSheet' = 0
           /\ hasChanges' = FALSE
           /\ currentFile' = "book" \o file.Ext
           /\ lastOp' = [NoOp EXCEPT !.op = "openTable", !.button = "table"]
           /\ UNCHANGED modal
    /\ lastOp'.text = <<>>
    /\ pre' = GetActiveSheetData
    /\ undone' = NotUndone
    /\ UNCHANGED <<edits, writes, disk, saved>>

NextOpen ==
    \/ \E file \in OpenFiles : OpenTableAt(file)
    \/ \E sel \in SaveSelections, text \in SaveTexts : WriteCounted(sel, text)
    \/ \E d \in {<<1, 0>>, <<-1, 0>>, <<0, 1>>, <<0, -1>>} : Pan(d[1], d[2])

SpecOpen == InitNew /\ [][NextOpen]_vars

\* the file cannot be loaded: it is missing, has an unsupported extension,
\* does not decode, or decodes to a workbook without sheets
Unloadable(file) ==
    \/ ~file.Exists
    \/ file.Ext \notin {".txt", ".gsheet", ".json"}
    \/ ~file.Decodes
    \/ file.Ext # ".txt" /\ Len(file.Sheets) = 0

\* C26: when the file cannot be loaded, table.OpenTable returns nil and the
\* installed workbook is unchanged: same sheets and cell stores, same
\* current filename, same modified flag.
C26_FailedOpenLeavesWorkbook ==
    [][\A file \in OpenFiles :
          (Unloadable(file) /\ OpenTableAt(file)) =>
              /\ lastOp'.button = "nil"
              /\ UNCHANGED <<sheets, activeSheet, hasChanges, currentFile>>]_vars


\* the validation state of the cell the dialog is open on
ValidationState(d, key) == <<d[key].Valrule, d[key].Valrulemsg>>

\* Apply was pressed and saveRule rejected the rule
RejectedApply ==
    /\ modal = ValruleModal
    /\ lastOp'.op = "applyRule"
    /\ lastOp'.button = "invalid"

\* the dialog was opened on an address without a cell and is cancelled
CancelOnEmptyAddress ==
    /\ lastOp.op = "ruleDialog"
    /\ lastOp.key \notin DOMAIN pre
    /\ cancelRule

\* C27: an Apply that saveRule rejects leaves the cell's rule and custom
\* message as they were, and opening the dialog on an address that holds no
\* cell and cancelling leaves the store without an entry for that address.
C27_RejectedApplyKeepsState ==
    [][/\ RejectedApply =>
            ValidationState(GetActiveSheetData', lastOp.key)
                = ValidationState(GetActiveSheetData, lastOp.key)
       /\ CancelOnEmptyAddress => lastOp.key \notin DOMAIN GetActiveSheetData']_vars


(***************************************************************************)
(* The logical functions of the library, called with booleans, numbers     *)
(* and strings where a condition is expected.                              *)
(***************************************************************************)
LogicalFuncs == {"IF", "IFS", "AND", "OR", "NOT", "XOR"}
\* the values a formula passes to a logical function
LogicArgs == {BoolV(TRUE), BoolV(FALSE), NumV(2), StrV(<<"a">>)}
LogicCalls ==
    {[fn |-> "NOT", args |-> args] :
        args \in {<<>>} \cup {<<x>> : x \in LogicArgs}}
    \cup {[fn |-> fn, args |-> args] :
        fn \in {"AND", "OR", "XOR"},
        args \in {<<x>> : x \in LogicArgs} \cup {<<x, y>> : x, y \in LogicArgs}}
    \cup {[fn |-> fn, args |-> args] :
        fn \in {"IF", "IFS"},
        args \in {<<x, y>> : x, y \in LogicArgs}
                 \cup {<<x, y, z>> : x, y, z \in LogicArgs}}

\* a formula is about to call a logical function
InitLogic ==
    \E call \in LogicCalls :
        /\ sheets = NewWorkbook
        /\ activeSheet = 0
        /\ hasChanges = FALSE
        /\ currentFile = NewTableCurrentFile
        /\ modal = NoModal
        /\ lastOp = [NoOp EXCEPT !.op = "call", !.button = call.fn,
                                 !.order = call.args]
        /\ pre = <<>>
        /\ rendered = <<>>
        /\ undone = NotUndone
        /\ edits = 0
        /\ writes = 0
        /\ disk = NoFile
        /\ saved = <<>>

SpecLogic == InitLogic /\ [][NextFn]_vars

\* the positions of a call's arguments where a condition is expected
ConditionPositions(fn, args) ==
    CASE fn \in {"IF", "NOT"} -> {1} \cap DOMAIN args
      [] fn = "IFS" -> {i \in DOMAIN args : i % 2 = 1 /\ i < Len(args)}
      [] fn \in {"AND", "OR", "XOR"} -> DOMAIN args
\* the call has a number of arguments the function accepts
LogicArity(fn, count) ==
    CASE fn = "IF" -> count = 3
      [] fn = "NOT" -> count = 1
      [] fn \in {"IFS", "AND", "OR", "XOR"} -> count >= 2

\* C28: IF, IFS, AND, OR, NOT and XOR, given a number or a string where a
\* condition is expected, return an error and no value; the call never
\* ends in a panic.
C28_NonBooleanConditionIsError ==
    (/\ Returned
     /\ lastOp.button \in LogicalFuncs
     /\ LogicArity(lastOp.button, Len(lastOp.order))
     /\ \E i \in ConditionPositions(lastOp.button, lastOp.order) :
            lastOp.order[i].k # "bool") =>
        /\ lastOp.out.val = Nil
        /\ lastOp.out.err.kind \notin {"none", "panic"}


\* the values of a list, trimmed
ListOf(values) == {TrimSpace(values[i]) : i \in DOMAIN values}

\* C29: for a rule built by the list preset from the values V on a cell of
\* type string, CheckValidationRule accepts a non-blank candidate exactly
\* when the candidate equals one of the trimmed values of V, whatever the
\* letter case of the values.
C29_ListAcceptsExactlyItsValues ==
    \A key \in DOMAIN GetActiveSheetData :
    \A values \in ListValues \ {<<>>} :
        (/\ GetActiveSheetData[key].Valrule = ListRule(values)
         /\ GetActiveSheetData[key].Type = "string") =>
            \A newValue \in EditValues :
                TrimSpace(newValue) # <<>> =>
                    (CheckValidationRule(GetActiveSheetData[key], newValue).ok
                        <=> newValue \in ListOf(values))


\* C30: right after NewTable the current filename is empty and the workbook
\* has no unsaved changes, and the filename becomes non-empty only through
\* an explicit open or save.
C30_NewTableUntitled ==
    /\ [](lastOp.op = "new" => (currentFile = "" /\ ~hasChanges))
    /\ [][(currentFile = "" /\ currentFile' # "") =>
              lastOp'.op \in {"load", "save"}]_vars

====
